---------------------------- MODULE Spec2Model ----------------------------
(***************************************************************************)
(* The intent-routing core of the stock market agent (src/stock_agent.py): *)
(* StockMarketAgent._decide_tool, _extract_symbol_robust, the expression   *)
(* extraction and the tool dispatch of chat, and the primary/fallback      *)
(* structure of the market-data tools (specification Spec); and the two    *)
(* programs that own an agent, the Streamlit session of src/app.py and the *)
(* run of src/test_agent.py (specification AppSpec).                       *)
(*                                                                         *)
(* A Python str is a sequence of one-character strings, so that substring  *)
(* tests, str.lower/str.upper and the regular expressions of the source    *)
(* are computed character by character.                                    *)
(***************************************************************************)
EXTENDS Integers, Sequences, FiniteSets, TLC

VARIABLES pc, message, tool_name, symbol, expression, tool_arg, events,
          primary_result, fallback_result, llm_result, response,
          groq_api_key, session_state, app_calls, test_run

\* one call of StockMarketAgent.chat
agent_vars == <<pc, message, tool_name, symbol, expression, tool_arg, events,
                primary_result, fallback_result, llm_result, response>>

\* the Streamlit session of app.py, the run of test_agent.py, and the
\* GROQ_API_KEY that their load_env_file finds
app_vars == <<groq_api_key, session_state, app_calls, test_run>>

vars == <<pc, message, tool_name, symbol, expression, tool_arg, events,
          primary_result, fallback_result, llm_result, response,
          groq_api_key, session_state, app_calls, test_run>>

---------------------------------------------------------------------------
(* Bounds of the model *)

\* the longest message is MaxWords words of Words, joined by single spaces
MaxWords == 2

---------------------------------------------------------------------------
(* Characters and Python str operations *)

\* Python None, for a value that is otherwise a str (a sequence of characters)
None == <<"None">>

\* Python None, for tool_name
NoTool == "None"

UpperChars ==
    <<"A", "B", "C", "D", "E", "F", "G", "H", "I", "J", "K", "L", "M",
      "N", "O", "P", "Q", "R", "S", "T", "U", "V", "W", "X", "Y", "Z",
      "Á", "É", "Í", "Ó", "Ú", "Ñ">>

LowerChars ==
    <<"a", "b", "c", "d", "e", "f", "g", "h", "i", "j", "k", "l", "m",
      "n", "o", "p", "q", "r", "s", "t", "u", "v", "w", "x", "y", "z",
      "á", "é", "í", "ó", "ú", "ñ">>

Range(f) == {f[i] : i \in DOMAIN f}

\* [A-Z] of the regular expressions
AsciiUpper == {UpperChars[i] : i \in 1..26}

\* \d
Digits == {"0", "1", "2", "3", "4", "5", "6", "7", "8", "9"}

\* \s
Spaces == {" ", "\t", "\n", "\r"}

\* \w of a str pattern: letters of any alphabet, digits and the underscore
WordChars == Range(UpperChars) \cup Range(LowerChars) \cup Digits \cup {"_"}

\* [+\-*/]
OpChars == {"+", "-", "*", "/"}

\* [\d\+\-\*\/\(\)\.\s]
GeneralChars == Digits \cup OpChars \cup {"(", ")", "."} \cup Spaces

IndexIn(seq, c) == CHOOSE i \in DOMAIN seq : seq[i] = c

char_lower(c) == IF c \in Range(UpperChars) THEN LowerChars[IndexIn(UpperChars, c)] ELSE c

char_upper(c) == IF c \in Range(LowerChars) THEN UpperChars[IndexIn(LowerChars, c)] ELSE c

\* str.lower()
lower(s) == [i \in 1..Len(s) |-> char_lower(s[i])]

\* str.upper()
upper(s) == [i \in 1..Len(s) |-> char_upper(s[i])]

\* str.strip()
strip(s) ==
    LET keep == {i \in 1..Len(s) : s[i] \notin Spaces}
    IN  IF keep = {} THEN <<>>
        ELSE SubSeq(s, CHOOSE i \in keep : \A j \in keep : i <= j,
                       CHOOSE i \in keep : \A j \in keep : i >= j)

---------------------------------------------------------------------------
(* Regular expressions.  A matcher takes the position j of the next        *)
(* character to match and gives the position after what it matched, or 0   *)
(* when it does not match (and 0 when j is 0: the match has failed before).*)
(* A pattern is the composition of its matchers, read inside out.  Every   *)
(* pattern of the source is a concatenation of greedy runs over character  *)
(* classes that are disjoint from what follows them, so that backtracking  *)
(* never changes a match and the greedy end is the only end.               *)

\* the last position of the greedy run of class C starting at i (i-1: empty run)
RunEnd(s, i, C) ==
    IF i > Len(s) THEN i - 1
    ELSE CHOOSE j \in (i - 1)..Len(s) :
            /\ \A k \in i..j : s[k] \in C
            /\ (j = Len(s) \/ s[j + 1] \notin C)

\* C*
Run0(s, j, C) == IF j = 0 THEN 0 ELSE RunEnd(s, j, C) + 1

\* C+
Run1(s, j, C) == IF j = 0 \/ j > Len(s) \/ s[j] \notin C THEN 0 ELSE RunEnd(s, j, C) + 1

\* one character of C
One(s, j, C) == IF j = 0 \/ j > Len(s) \/ s[j] \notin C THEN 0 ELSE j + 1

\* s[i:i+len(sub)] == sub
OccursAt(s, sub, i) ==
    /\ i >= 1
    /\ i + Len(sub) - 1 <= Len(s)
    /\ \A k \in 1..Len(sub) : s[i + k - 1] = sub[k]

\* the literal lit
Lit(s, j, lit) == IF j = 0 \/ ~OccursAt(s, lit, j) THEN 0 ELSE j + Len(lit)

\* the end of a match, from the position after it
End(j) == IF j = 0 THEN 0 ELSE j - 1

\* [^)]
NotCloseParen(s) == {s[k] : k \in DOMAIN s} \ {")"}

\* r'\d+\s*[+\-*/]\s*\d+'
basic_op_end(s, i) ==
    End(Run1(s, Run0(s, One(s, Run0(s, Run1(s, i, Digits), Spaces), OpChars), Spaces), Digits))

\* r'\d+\s*%\s*of\s*\d+'
percent_of_end(s, i) ==
    End(Run1(s, Run0(s, Lit(s, Run0(s, Lit(s, Run0(s, Run1(s, i, Digits), Spaces),
        <<"%">>), Spaces), <<"o", "f">>), Spaces), Digits))

\* name\s*\(   (r'sqrt\s*\(', and each alternative of the trig pattern of _decide_tool)
call_open(s, i, name) == Lit(s, Run0(s, Lit(s, i, name), Spaces), <<"(">>)

\* name\s*\([^)]+\)
call_end(s, i, name) == End(Lit(s, Run1(s, call_open(s, i, name), NotCloseParen(s)), <<")">>))

TrigNames == <<<<"s", "i", "n">>, <<"c", "o", "s">>, <<"t", "a", "n">>>>

Min(S) == CHOOSE x \in S : \A y \in S : x <= y

Max(S) == CHOOSE x \in S : \A y \in S : x >= y

\* a|b|c at one position: the first alternative that matches
FirstAlt(ends) ==
    IF \A k \in DOMAIN ends : ends[k] = 0 THEN 0
    ELSE ends[Min({k \in DOMAIN ends : ends[k] # 0})]

\* r'sin\s*\(|cos\s*\(|tan\s*\('
trig_open(s, i) == FirstAlt([k \in DOMAIN TrigNames |-> call_open(s, i, TrigNames[k])])

\* r'sin\s*\([^)]+\)|cos\s*\([^)]+\)|tan\s*\([^)]+\)'
trig_call_end(s, i) == FirstAlt([k \in DOMAIN TrigNames |-> call_end(s, i, TrigNames[k])])

\* r'[\d\+\-\*\/\(\)\.\s]+'
general_end(s, i) == End(Run1(s, i, GeneralChars))

\* \b at the gap before position i
WordBoundary(s, i) ==
    (i - 1 >= 1 /\ s[i - 1] \in WordChars) # (i <= Len(s) /\ s[i] \in WordChars)

\* [A-Z]{3,5}\b from i, the run of capitals from i ending at a: the longest of
\* the lengths 5, 4, 3 that stays in the run and ends at a boundary
bounded_run_end(s, i, a) ==
    IF \E n \in 3..5 : i + n - 1 <= a /\ WordBoundary(s, i + n)
    THEN i + Max({n \in 3..5 : i + n - 1 <= a /\ WordBoundary(s, i + n)}) - 1
    ELSE 0

\* r'\b[A-Z]{3,5}\b'
symbol_end(s, i) ==
    IF WordBoundary(s, i) THEN bounded_run_end(s, i, RunEnd(s, i, AsciiUpper)) ELSE 0

\* the patterns that chat and _extract_symbol_robust hand to re.findall
MatchEnd(p, s, i) ==
    CASE p = "basic_op" -> basic_op_end(s, i)
      [] p = "percent_of" -> percent_of_end(s, i)
      [] p = "sqrt_call" -> call_end(s, i, <<"s", "q", "r", "t">>)
      [] p = "trig_call" -> trig_call_end(s, i)
      [] p = "general" -> general_end(s, i)
      [] p = "symbol" -> symbol_end(s, i)

RECURSIVE FindAllFrom(_, _, _)

\* the match m = <<start, end>>, then the matches after its end
FindAllEmit(p, s, m) == <<SubSeq(s, m[1], m[2])>> \o FindAllFrom(p, s, m[2] + 1)

\* the leftmost of the matches found, then the matches after its end
FindAllNext(p, s, found) ==
    IF found = {} THEN <<>>
    ELSE FindAllEmit(p, s, CHOOSE m \in found : \A n \in found : m[1] <= n[1])

\* re.findall(p, s), scanning from pos: leftmost matches, not overlapping
FindAllFrom(p, s, pos) ==
    FindAllNext(p, s, {m \in {<<i, MatchEnd(p, s, i)>> : i \in pos..Len(s)} : m[2] # 0})

re_findall(p, s) == FindAllFrom(p, s, 1)

\* sub in s
Contains(s, sub) == \E i \in 1..(Len(s) + 1) : OccursAt(s, sub, i)

\* any(sub in s for sub in subs)
ContainsAny(s, subs) == \E sub \in subs : Contains(s, sub)

\* re.search of a pattern that is an alternation of literals
SearchAny(s, literals) == ContainsAny(s, literals)

\* re.search(r'a.*b', s): '.' is any character but a newline
SearchDotStar(s, a, b) ==
    \E i \in 1..Len(s) : \E j \in (i + Len(a))..Len(s) :
        /\ OccursAt(s, a, i)
        /\ OccursAt(s, b, j)
        /\ \A k \in (i + Len(a))..(j - 1) : s[k] # "\n"

---------------------------------------------------------------------------
(* StockMarketAgent._extract_symbol_robust *)

\* stock_mapping, in the insertion order that dict.items() iterates
stock_mapping ==
    << <<<<"A", "P", "P", "L", "E">>, <<"A", "A", "P", "L">>>>,         <<<<"A", "A", "P", "L">>, <<"A", "A", "P", "L">>>>,
       <<<<"T", "E", "S", "L", "A">>, <<"T", "S", "L", "A">>>>,         <<<<"T", "S", "L", "A">>, <<"T", "S", "L", "A">>>>,
       <<<<"M", "I", "C", "R", "O", "S", "O", "F", "T">>, <<"M", "S", "F", "T">>>>,     <<<<"M", "S", "F", "T">>, <<"M", "S", "F", "T">>>>,
       <<<<"G", "O", "O", "G", "L", "E">>, <<"G", "O", "O", "G", "L">>>>,       <<<<"G", "O", "O", "G", "L">>, <<"G", "O", "O", "G", "L">>>>,
       <<<<"A", "M", "A", "Z", "O", "N">>, <<"A", "M", "Z", "N">>>>,        <<<<"A", "M", "Z", "N">>, <<"A", "M", "Z", "N">>>>,
       <<<<"M", "E", "T", "A">>, <<"M", "E", "T", "A">>>>,          <<<<"F", "A", "C", "E", "B", "O", "O", "K">>, <<"M", "E", "T", "A">>>>,
       <<<<"N", "E", "T", "F", "L", "I", "X">>, <<"N", "F", "L", "X">>>>,       <<<<"N", "F", "L", "X">>, <<"N", "F", "L", "X">>>>,
       <<<<"N", "V", "I", "D", "I", "A">>, <<"N", "V", "D", "A">>>>,        <<<<"N", "V", "D", "A">>, <<"N", "V", "D", "A">>>>,
       <<<<"B", "I", "T", "C", "O", "I", "N">>, <<"B", "T", "C">>>>,        <<<<"B", "T", "C">>, <<"B", "T", "C">>>>,
       <<<<"E", "T", "H", "E", "R", "E", "U", "M">>, <<"E", "T", "H">>>>,       <<<<"E", "T", "H">>, <<"E", "T", "H">>>> >>

exclude_words ==
    {<<"T", "H", "E">>, <<"A", "N", "D">>, <<"F", "O", "R">>, <<"A", "R", "E">>, <<"B", "U", "T">>, <<"N", "O", "T">>, <<"Y", "O", "U">>, <<"A", "L", "L">>,
     <<"C", "A", "N">>, <<"H", "A", "D">>, <<"H", "E", "R">>, <<"W", "A", "S">>, <<"O", "N", "E">>, <<"O", "U", "R">>, <<"O", "U", "T">>, <<"D", "A", "Y">>,
     <<"G", "E", "T">>, <<"H", "A", "S">>, <<"H", "I", "M">>, <<"H", "I", "S">>, <<"H", "O", "W">>, <<"I", "T", "S">>, <<"M", "A", "Y">>, <<"N", "E", "W">>,
     <<"N", "O", "W">>, <<"O", "L", "D">>, <<"S", "E", "E">>, <<"T", "W", "O">>, <<"W", "A", "Y">>, <<"W", "H", "O">>, <<"B", "O", "Y">>, <<"D", "I", "D">>,
     <<"M", "A", "N">>, <<"M", "E", "N">>, <<"P", "U", "T">>, <<"S", "A", "Y">>, <<"S", "H", "E">>, <<"T", "O", "O">>, <<"U", "S", "E">>}

\* for key, symbol in stock_mapping.items(): if key in message_upper: return symbol
mapping_lookup_last(message_upper) ==
    LET hits == {k \in DOMAIN stock_mapping : Contains(message_upper, stock_mapping[k][1])}
    IN  IF hits = {} THEN None
        ELSE stock_mapping[CHOOSE k \in hits : \A j \in hits : j <= k][2]

mapping_lookup(message_upper) ==
    LET hits == {k \in DOMAIN stock_mapping : Contains(message_upper, stock_mapping[k][1])}
    IN  IF hits = {} THEN None ELSE stock_mapping[Min(hits)][2]

\* for symbol in symbols: if symbol not in exclude_words and len(symbol) >= 3: return symbol
first_symbol(symbols) ==
    LET ok == {k \in DOMAIN symbols :
                 symbols[k] \notin exclude_words /\ Len(symbols[k]) >= 3}
    IN  IF ok = {} THEN None ELSE symbols[Min(ok)]

\* the two steps of _extract_symbol_robust: the mapping, then the symbol pattern
symbol_from(message_upper, mapped) ==
    IF mapped # None THEN mapped
    ELSE first_symbol(re_findall("symbol", message_upper))

extract_symbol_robust(msg) == symbol_from(upper(msg), mapping_lookup(upper(msg)))

---------------------------------------------------------------------------
(* StockMarketAgent._decide_tool *)

\* math_patterns, searched in message_lower
math_patterns_match(message_lower) ==
    \E i \in 1..Len(message_lower) :
        \/ basic_op_end(message_lower, i) # 0
        \/ percent_of_end(message_lower, i) # 0
        \/ call_open(message_lower, i, <<"s", "q", "r", "t">>) # 0
        \/ trig_open(message_lower, i) # 0

\* any(char in message for char in ['+', '-', '*', '/', '%', '=', 'sqrt', ...]),
\* on the message as typed
math_operators_match(msg) ==
    ContainsAny(msg, {<<"+">>, <<"-">>, <<"*">>, <<"/">>, <<"%">>, <<"=">>,
                      <<"s", "q", "r", "t">>, <<"s", "i", "n">>, <<"c", "o", "s">>, <<"t", "a", "n">>, <<"l", "o", "g">>})

price_patterns_match(message_lower) ==
    \/ SearchAny(message_lower, {<<"p", "r", "e", "c", "i", "o">>, <<"p", "r", "i", "c", "e">>, <<"c", "o", "t", "i", "z", "a", "c", "i", "ó", "n">>, <<"c", "u", "e", "s", "t", "a">>,
                                 <<"c", "o", "s", "t">>, <<"v", "a", "l", "o", "r">>, <<"v", "a", "l", "u", "e">>})
    \/ SearchAny(message_lower, {<<"c", "u", "á", "n", "t", "o", " ", "c", "u", "e", "s", "t", "a">>, <<"h", "o", "w", " ", "m", "u", "c", "h">>})
    \/ SearchDotStar(message_lower, <<"w", "h", "a", "t">>, <<"p", "r", "i", "c", "e">>)
    \/ SearchAny(message_lower, {<<"p", "r", "e", "c", "i", "o", " ", "a", "c", "t", "u", "a", "l">>, <<"c", "u", "r", "r", "e", "n", "t", " ", "p", "r", "i", "c", "e">>})

crypto_names_match(message_lower) ==
    ContainsAny(message_lower, {<<"b", "i", "t", "c", "o", "i", "n">>, <<"b", "t", "c">>, <<"e", "t", "h", "e", "r", "e", "u", "m">>, <<"e", "t", "h">>,
                                <<"c", "r", "y", "p", "t", "o">>, <<"c", "r", "i", "p", "t", "o", "m", "o", "n", "e", "d", "a">>})

info_patterns_match(message_lower) ==
    \/ SearchAny(message_lower, {<<"i", "n", "f", "o", "r", "m", "a", "c", "i", "ó", "n">>, <<"i", "n", "f", "o">>, <<"d", "e", "t", "a", "l", "l", "e", "s">>, <<"d", "e", "t", "a", "i", "l", "s">>,
                                 <<"m", "a", "r", "k", "e", "t", " ", "c", "a", "p">>, <<"v", "o", "l", "u", "m", "e", "n">>, <<"v", "o", "l", "u", "m", "e">>})
    \/ SearchAny(message_lower, {<<"c", "a", "p", "i", "t", "a", "l", "i", "z", "a", "c", "i", "ó", "n">>, <<"c", "a", "p", "i", "t", "a", "l", "i", "z", "a", "t", "i", "o", "n">>, <<"h", "i", "g", "h">>, <<"l", "o", "w">>})
    \/ SearchDotStar(message_lower, <<"5", "2">>, <<"w", "e", "e", "k">>)

\* the second pattern of the list left out
historical_patterns_first_only(message_lower) ==
    SearchAny(message_lower, {<<"h", "i", "s", "t", "ó", "r", "i", "c", "o">>, <<"h", "i", "s", "t", "o", "r", "i", "c", "a", "l">>, <<"a", "y", "e", "r">>, <<"y", "e", "s", "t", "e", "r", "d", "a", "y">>,
                              <<"c", "a", "m", "b", "i", "o">>, <<"c", "h", "a", "n", "g", "e">>, <<"t", "r", "e", "n", "d">>})

historical_patterns_match(message_lower) ==
    \/ SearchAny(message_lower, {<<"h", "i", "s", "t", "ó", "r", "i", "c", "o">>, <<"h", "i", "s", "t", "o", "r", "i", "c", "a", "l">>, <<"a", "y", "e", "r">>, <<"y", "e", "s", "t", "e", "r", "d", "a", "y">>,
                                 <<"c", "a", "m", "b", "i", "o">>, <<"c", "h", "a", "n", "g", "e">>, <<"t", "r", "e", "n", "d">>})
    \/ SearchAny(message_lower, {<<"ú", "l", "t", "i", "m", "o">>, <<"l", "a", "s", "t">>, <<"s", "e", "m", "a", "n", "a">>, <<"w", "e", "e", "k">>, <<"m", "e", "s">>,
                                 <<"m", "o", "n", "t", "h">>, <<"a", "ñ", "o">>, <<"y", "e", "a", "r">>})

average_first_pattern_match(message_lower) ==
    SearchAny(message_lower, {<<"p", "r", "o", "m", "e", "d", "i", "o">>, <<"a", "v", "e", "r", "a", "g", "e">>, <<"m", "e", "d", "i", "a">>, <<"m", "e", "a", "n">>})

average_second_pattern_match(message_lower) ==
    SearchAny(message_lower, {<<"ú", "l", "t", "i", "m", "a", " ", "s", "e", "m", "a", "n", "a">>, <<"l", "a", "s", "t", " ", "w", "e", "e", "k">>, <<"ú", "l", "t", "i", "m", "o", "s", " ", "d", "í", "a", "s">>,
                              <<"l", "a", "s", "t", " ", "d", "a", "y", "s">>})

average_patterns_match(message_lower) ==
    \/ average_first_pattern_match(message_lower)
    \/ average_second_pattern_match(message_lower)

search_patterns_match(message_lower) ==
    \/ SearchAny(message_lower, {<<"b", "u", "s", "c", "a", "r">>, <<"s", "e", "a", "r", "c", "h">>, <<"n", "o", "t", "i", "c", "i", "a", "s">>, <<"n", "e", "w", "s">>,
                                 <<"e", "n", "c", "o", "n", "t", "r", "a", "r">>, <<"f", "i", "n", "d">>})
    \/ SearchAny(message_lower, {<<"ú", "l", "t", "i", "m", "a", "s", " ", "n", "o", "t", "i", "c", "i", "a", "s">>, <<"l", "a", "t", "e", "s", "t", " ", "n", "e", "w", "s">>,
                                 <<"i", "n", "f", "o", "r", "m", "a", "c", "i", "ó", "n", " ", "s", "o", "b", "r", "e">>})

\* the nested test left out: the price stage always gives the stock tool
price_tool_stock_only(message_lower) == "get_stock_price"

\* the price stage: crypto or stock
price_tool(message_lower) ==
    IF crypto_names_match(message_lower) THEN "get_crypto_price" ELSE "get_stock_price"

\* the keyword stages checked before the arithmetic ones
decide_tool_keywords_first(msg) ==
    LET message_lower == lower(msg)
    IN  IF price_patterns_match(message_lower) THEN price_tool(message_lower)
        ELSE IF info_patterns_match(message_lower) THEN "get_stock_info"
        ELSE IF historical_patterns_match(message_lower) THEN "get_historical_data"
        ELSE IF average_patterns_match(message_lower) THEN "calculate_average_price"
        ELSE IF search_patterns_match(message_lower) THEN "web_search"
        ELSE IF math_patterns_match(message_lower) THEN "mathematical_calculation"
        ELSE IF math_operators_match(msg) THEN "mathematical_calculation"
        ELSE IF extract_symbol_robust(msg) # None THEN "get_stock_price"
        ELSE NoTool

\* the averaging stage checked before the historical one
decide_tool_average_first(msg) ==
    LET message_lower == lower(msg)
    IN  IF math_patterns_match(message_lower) THEN "mathematical_calculation"
        ELSE IF math_operators_match(msg) THEN "mathematical_calculation"
        ELSE IF price_patterns_match(message_lower) THEN price_tool(message_lower)
        ELSE IF info_patterns_match(message_lower) THEN "get_stock_info"
        ELSE IF average_patterns_match(message_lower) THEN "calculate_average_price"
        ELSE IF historical_patterns_match(message_lower) THEN "get_historical_data"
        ELSE IF search_patterns_match(message_lower) THEN "web_search"
        ELSE IF extract_symbol_robust(msg) # None THEN "get_stock_price"
        ELSE NoTool

decide_tool(msg) ==
    LET message_lower == lower(msg)
    IN  IF math_patterns_match(message_lower) THEN "mathematical_calculation"
        ELSE IF math_operators_match(msg) THEN "mathematical_calculation"
        ELSE IF price_patterns_match(message_lower) THEN price_tool(message_lower)
        ELSE IF info_patterns_match(message_lower) THEN "get_stock_info"
        ELSE IF historical_patterns_match(message_lower) THEN "get_historical_data"
        ELSE IF average_patterns_match(message_lower) THEN "calculate_average_price"
        ELSE IF search_patterns_match(message_lower) THEN "web_search"
        ELSE IF extract_symbol_robust(msg) # None THEN "get_stock_price"
        ELSE NoTool

---------------------------------------------------------------------------
(* The expression extraction of chat *)

\* math_patterns of chat, in list order
extract_patterns == <<"basic_op", "percent_of", "sqrt_call", "trig_call", "general">>

\* max(matches, key=len): the first of the longest matches
max_by_len(matches) ==
    matches[Min({k \in DOMAIN matches :
                   \A j \in DOMAIN matches : Len(matches[j]) <= Len(matches[k])})]

\* re.findall of every pattern of the list
all_matches(msg) == [k \in DOMAIN extract_patterns |-> re_findall(extract_patterns[k], msg)]

\* max(matches, key=len) replaced by matches[0]
expression_from_first_match(found) ==
    IF \A k \in DOMAIN found : found[k] = <<>> THEN None
    ELSE strip(found[Min({k \in DOMAIN found : found[k] # <<>>})][1])

\* for pattern in math_patterns: matches = re.findall(pattern, message);
\*     if matches: expression = max(matches, key=len).strip(); break
expression_from(found) ==
    IF \A k \in DOMAIN found : found[k] = <<>> THEN None
    ELSE strip(max_by_len(found[Min({k \in DOMAIN found : found[k] # <<>>})]))

extract_expression(msg) == expression_from(all_matches(msg))

---------------------------------------------------------------------------
(* mathematical_calculation: eval(expression, {"__builtins__": {}},        *)
(* allowed_names).  Python's eval is modelled on the characters that the   *)
(* extraction patterns can hand it from the messages of this model:        *)
(* digits, letters, blanks, + - * / % ( ), with one argument to a call and *)
(* no Python keyword.  Any other character is read as a syntax error.  A   *)
(* float is kept as the exact fraction num/den.                            *)

allowed_callables ==
    {<<"a", "b", "s">>, <<"r", "o", "u", "n", "d">>, <<"m", "i", "n">>, <<"m", "a", "x">>, <<"s", "u", "m">>,
     <<"s", "i", "n">>, <<"c", "o", "s">>, <<"t", "a", "n">>, <<"l", "o", "g">>, <<"e", "x", "p">>, <<"s", "q", "r", "t">>}

allowed_floats == {<<"p", "i">>, <<"e">>}

ErrSyntax == <<"i", "n", "v", "a", "l", "i", "d", " ", "s", "y", "n", "t", "a", "x">>
ErrZeroDivision == <<"d", "i", "v", "i", "s", "i", "o", "n", " ", "b", "y", " ", "z", "e", "r", "o">>
ErrName == <<"n", "a", "m", "e", " ", "i", "s", " ", "n", "o", "t", " ", "d", "e", "f", "i", "n", "e", "d">>
ErrType == <<"u", "n", "s", "u", "p", "p", "o", "r", "t", "e", "d", " ", "o", "p", "e", "r", "a", "n", "d", " ", "o", "r", " ", "a", "r", "g", "u", "m", "e", "n", "t", " ", "t", "y", "p", "e">>
ErrBuiltins == <<"'", "m", "o", "d", "u", "l", "e", "'", " ", "o", "b", "j", "e", "c", "t", " ", "h", "a", "s", " ", "n", "o", " ", "a", "t", "t", "r", "i", "b", "u", "t", "e", " ", "'", "i", "t", "e", "m", "s", "'">>

IntVal(n) == [t |-> "int", num |-> n, den |-> 1]
ErrVal(e) == [t |-> "err", e |-> e]
\* a value the model does not compute (a numpy function result, pi, e, **)
OpaqueVal == [t |-> "opaque"]
CallableVal(name) == [t |-> "callable", name |-> name]

Abs(n) == IF n < 0 THEN -n ELSE n

RECURSIVE Gcd(_, _)
Gcd(a, b) == IF b = 0 THEN a ELSE Gcd(b, a % b)

\* the float num/den, in lowest terms with a positive denominator
FloatVal(num, den) ==
    LET g == Gcd(Abs(num), Abs(den))
        sgn == IF den < 0 THEN -1 ELSE 1
    IN  [t |-> "float", num |-> sgn * (num \div g), den |-> sgn * (den \div g)]

IsNumber(v) == v.t \in {"int", "float"}

\* Python's a % b for ints: the result has the sign of b
PyMod(a, b) == IF b > 0 THEN a % b ELSE -((-a) % (-b))

\* a binary operator applied to two evaluated operands
Arith(op, a, b) ==
    IF a.t = "err" THEN a
    ELSE IF b.t = "err" THEN b
    ELSE IF a.t = "callable" \/ b.t = "callable" THEN ErrVal(ErrType)
    ELSE IF ~(IsNumber(a) /\ IsNumber(b)) \/ op \in {"**", "//"} THEN
        IF op \in {"/", "%", "//"} /\ IsNumber(b) /\ b.num = 0
        THEN ErrVal(ErrZeroDivision) ELSE OpaqueVal
    ELSE IF op = "/" THEN
        IF b.num = 0 THEN ErrVal(ErrZeroDivision)
        ELSE FloatVal(a.num * b.den, a.den * b.num)
    ELSE IF op = "%" THEN
        IF b.num = 0 THEN ErrVal(ErrZeroDivision)
        ELSE IF a.t = "int" /\ b.t = "int" THEN IntVal(PyMod(a.num, b.num))
        ELSE OpaqueVal
    ELSE LET num == CASE op = "+" -> a.num * b.den + b.num * a.den
                      [] op = "-" -> a.num * b.den - b.num * a.den
                      [] op = "*" -> a.num * b.num
             den == a.den * b.den
         IN  IF a.t = "int" /\ b.t = "int" THEN IntVal(num) ELSE FloatVal(num, den)

Negate(a) ==
    IF a.t = "int" THEN IntVal(-a.num)
    ELSE IF a.t = "float" THEN FloatVal(-a.num, a.den)
    ELSE IF a.t = "err" THEN a
    ELSE IF a.t = "callable" THEN ErrVal(ErrType)
    ELSE OpaqueVal

\* name lookup in allowed_names (the builtins are emptied)
LookupName(name) ==
    IF name \in allowed_callables THEN CallableVal(name)
    ELSE IF name \in allowed_floats THEN OpaqueVal
    ELSE ErrVal(ErrName)

RECURSIVE IntSqrt(_, _)
IntSqrt(n, r) == IF r * r >= n THEN r ELSE IntSqrt(n, r + 1)

\* f(arg)
CallValue(f, arg) ==
    IF f.t = "err" THEN f
    ELSE IF arg.t = "err" THEN arg
    ELSE IF f.t # "callable" \/ arg.t = "callable" THEN ErrVal(ErrType)
    ELSE IF f.name \in {<<"m", "i", "n">>, <<"m", "a", "x">>, <<"s", "u", "m">>} THEN ErrVal(ErrType)
    ELSE IF f.name = <<"a", "b", "s">> /\ arg.t = "int" THEN IntVal(Abs(arg.num))
    ELSE IF f.name = <<"r", "o", "u", "n", "d">> /\ arg.t = "int" THEN arg
    ELSE IF f.name = <<"s", "q", "r", "t">> /\ arg.t = "int" /\ arg.num >= 0
            /\ IntSqrt(arg.num, 0) * IntSqrt(arg.num, 0) = arg.num
    THEN FloatVal(IntSqrt(arg.num, 0), 1)
    ELSE OpaqueVal

\* f(): every callable of allowed_names needs an argument
CallNoArgs(f) == IF f.t = "err" THEN f ELSE ErrVal(ErrType)

RECURSIVE DigitsValue(_)
DigitsValue(ds) ==
    IF ds = <<>> THEN 0
    ELSE 10 * DigitsValue(SubSeq(ds, 1, Len(ds) - 1))
         + (CHOOSE d \in 0..9 : ToString(d) = ds[Len(ds)])

Tok(k, text) == [k |-> k, text |-> text]

NameStart == (WordChars \ Digits)

RECURSIVE TokenizeFrom(_, _)
\* the tokens of s from position i on
TokenizeFrom(s, i) ==
    IF i > Len(s) THEN <<>>
    ELSE IF s[i] \in Spaces THEN TokenizeFrom(s, i + 1)
    ELSE IF s[i] \in Digits THEN
        LET j == RunEnd(s, i, Digits)
        IN  <<Tok("num", SubSeq(s, i, j))>> \o TokenizeFrom(s, j + 1)
    ELSE IF s[i] \in NameStart THEN
        LET j == RunEnd(s, i, WordChars)
        IN  <<Tok("name", SubSeq(s, i, j))>> \o TokenizeFrom(s, j + 1)
    ELSE IF OccursAt(s, <<"*", "*">>, i) THEN <<Tok("**", <<>>)>> \o TokenizeFrom(s, i + 2)
    ELSE IF OccursAt(s, <<"/", "/">>, i) THEN <<Tok("//", <<>>)>> \o TokenizeFrom(s, i + 2)
    ELSE IF s[i] \in {"+", "-", "*", "/", "%", "(", ")"}
    THEN <<Tok(s[i], <<>>)>> \o TokenizeFrom(s, i + 1)
    ELSE <<Tok("bad", <<s[i]>>)>> \o TokenizeFrom(s, i + 1)

\* a decimal literal with a leading zero is a syntax error unless it is all zeros
BadNumber(ds) == Len(ds) > 1 /\ ds[1] = "0" /\ \E k \in DOMAIN ds : ds[k] # "0"

\* the result of parsing from token p: syntax error or not, value, next token
Parsed(syn, v, p) == [syn |-> syn, v |-> v, p |-> p]

SyntaxErr == Parsed(TRUE, OpaqueVal, 0)

TokIs(toks, p, kinds) == p <= Len(toks) /\ toks[p].k \in kinds

RECURSIVE ParseSum(_, _), SumRest(_, _), ParseTerm(_, _), TermRest(_, _),
          ParseFactor(_, _), ParsePower(_, _), ParseAtom(_, _), Trailer(_, _)

\* l op r, for the parsed operands l and r
Combine(op, l, r) ==
    IF l.syn \/ r.syn THEN SyntaxErr ELSE Parsed(FALSE, Arith(op, l.v, r.v), r.p)

\* sum: term (('+' | '-') term)*
ParseSum(toks, p) == SumRest(toks, ParseTerm(toks, p))

SumRest(toks, l) ==
    IF l.syn THEN SyntaxErr
    ELSE IF TokIs(toks, l.p, {"+", "-"})
    THEN SumRest(toks, Combine(toks[l.p].k, l, ParseTerm(toks, l.p + 1)))
    ELSE l

\* term: factor (('*' | '/' | '//' | '%') factor)*
ParseTerm(toks, p) == TermRest(toks, ParseFactor(toks, p))

TermRest(toks, l) ==
    IF l.syn THEN SyntaxErr
    ELSE IF TokIs(toks, l.p, {"*", "/", "//", "%"})
    THEN TermRest(toks, Combine(toks[l.p].k, l, ParseFactor(toks, l.p + 1)))
    ELSE l

\* op r, for the sign op
Signed(op, r) ==
    IF r.syn THEN SyntaxErr
    ELSE Parsed(FALSE, IF op = "-" \/ r.v.t = "callable" THEN Negate(r.v) ELSE r.v, r.p)

\* factor: ('+' | '-') factor | power
ParseFactor(toks, p) ==
    IF TokIs(toks, p, {"+", "-"}) THEN Signed(toks[p].k, ParseFactor(toks, p + 1))
    ELSE ParsePower(toks, p)

PowerRest(toks, l) ==
    IF l.syn THEN SyntaxErr
    ELSE IF TokIs(toks, l.p, {"**"}) THEN Combine("**", l, ParseFactor(toks, l.p + 1))
    ELSE l

\* power: primary ['**' factor]
ParsePower(toks, p) == PowerRest(toks, ParseAtom(toks, p))

\* r ')'
Closed(toks, r) ==
    IF r.syn \/ ~TokIs(toks, r.p, {")"}) THEN SyntaxErr ELSE Parsed(FALSE, r.v, r.p + 1)

\* f applied to the parsed argument r
Called(f, r) == IF r.syn THEN SyntaxErr ELSE Parsed(FALSE, CallValue(f.v, r.v), r.p)

\* atom: NUMBER | NAME | '(' ')' (the empty tuple) | '(' sum ')', then its trailers
ParseAtom(toks, p) ==
    IF TokIs(toks, p, {"num"}) THEN
        IF BadNumber(toks[p].text) THEN SyntaxErr
        ELSE Trailer(toks, Parsed(FALSE, IntVal(DigitsValue(toks[p].text)), p + 1))
    ELSE IF TokIs(toks, p, {"name"}) THEN
        Trailer(toks, Parsed(FALSE, LookupName(toks[p].text), p + 1))
    ELSE IF TokIs(toks, p, {"("}) THEN
        IF TokIs(toks, p + 1, {")"}) THEN Trailer(toks, Parsed(FALSE, OpaqueVal, p + 2))
        ELSE Trailer(toks, Closed(toks, ParseSum(toks, p + 1)))
    ELSE SyntaxErr

\* any number of calls '(' [sum] ')' after the parsed primary f
Trailer(toks, f) ==
    IF f.syn THEN SyntaxErr
    ELSE IF TokIs(toks, f.p, {"("}) THEN
        IF TokIs(toks, f.p + 1, {")"})
        THEN Trailer(toks, Parsed(FALSE, CallNoArgs(f.v), f.p + 2))
        ELSE Trailer(toks, Called(f, Closed(toks, ParseSum(toks, f.p + 1))))
    ELSE f

\* the whole input must be one expression
eval_parsed(toks, r) ==
    IF r.syn \/ r.p # Len(toks) + 1 THEN ErrVal(ErrSyntax) ELSE r.v

eval_tokens(toks) == eval_parsed(toks, ParseSum(toks, 1))

\* eval(expression, ...): the value, or the exception as an error value
py_eval(expr) == eval_tokens(TokenizeFrom(expr, 1))

\* a text that a tool or chat returns: its format, and what is put into it
Text(fmt, sym, err, value) == [fmt |-> fmt, symbol |-> sym, err |-> err, value |-> value]

NoValue == [t |-> "none"]

\* mathematical_calculation(expression); builtins_is_dict: whether the module's
\* __builtins__ is the dict of an imported module (it is the builtins module
\* itself, without .items(), when stock_agent.py is run as the main script)
\* return f"Result: {result}" / except Exception as e: return f"Error in calculation: {str(e)}"
calculation_text(result) ==
    IF result.t = "err"
    THEN Text("Error in calculation: {e}", <<>>, result.e, NoValue)
    ELSE Text("Result: {result}", <<>>, <<>>, result)

mathematical_calculation(expr, builtins_is_dict) ==
    IF ~builtins_is_dict THEN calculation_text(ErrVal(ErrBuiltins))
    ELSE calculation_text(py_eval(expr))

---------------------------------------------------------------------------
(* The tools and their primary/fallback structure *)

\* the list with the crypto Tool registered under another name
tools_crypto_renamed ==
    <<"get_stock_price", "get_stock_info", "get_historical_data",
      "calculate_average_price", "get_crypto", "web_search",
      "mathematical_calculation">>

\* the list without the Tool of web_search
tools_without_search ==
    <<"get_stock_price", "get_stock_info", "get_historical_data",
      "calculate_average_price", "get_crypto_price", "mathematical_calculation">>

\* the names of the Tool objects of _create_tools, in list order
tools ==
    <<"get_stock_price", "get_stock_info", "get_historical_data",
      "calculate_average_price", "get_crypto_price", "web_search",
      "mathematical_calculation">>

\* the tools that call the market-data provider
MarketTools ==
    {"get_stock_price", "get_stock_info", "get_historical_data",
     "calculate_average_price", "get_crypto_price"}

\* for tool in self.tools: if tool.name == tool_name: tool_func = tool.func
tool_func_found(name) == \E k \in DOMAIN tools : tools[k] = name

\* the second test left out: only "429" is taken for a rate limit
is_rate_limit_429_only(e) == Contains(e, <<"4", "2", "9">>)

\* the test on the error text left out: every failure goes to the fallback
is_rate_limit_always(e) == TRUE

\* "429" in str(e) or "Too Many Requests" in str(e)
is_rate_limit(e) == Contains(e, <<"4", "2", "9">>) \/ Contains(e, <<"T", "o", "o", " ", "M", "a", "n", "y", " ", "R", "e", "q", "u", "e", "s", "t", "s">>)

\* the exceptions a provider, the search or the completion call can raise, by str(e)
ErrorTexts ==
    {<<"4", "2", "9", " ", "C", "l", "i", "e", "n", "t", " ", "E", "r", "r", "o", "r">>, <<"T", "o", "o", " ", "M", "a", "n", "y", " ", "R", "e", "q", "u", "e", "s", "t", "s">>, <<"t", "i", "m", "e", "d", " ", "o", "u", "t">>}

\* the closing prices that a source returns for a history, the oldest first:
\* one data point, two, three
HistoryCloses == {<<100>>, <<100, 110>>, <<80, 110, 100>>}

\* what the primary call of a tool can do: return data (for
\* get_historical_data, the closing prices), return no rows (hist.empty, for
\* the two tools that read a history), or raise
PrimaryOutcomes(name) ==
    (IF name = "get_historical_data"
     THEN {[kind |-> "ok", err |-> <<>>, closes |-> c] : c \in HistoryCloses}
     ELSE {[kind |-> "ok", err |-> <<>>, closes |-> <<>>]})
    \cup (IF name \in {"get_historical_data", "calculate_average_price"}
          THEN {[kind |-> "empty", err |-> <<>>, closes |-> <<>>]} ELSE {})
    \cup {[kind |-> "raise", err |-> e, closes |-> <<>>] : e \in ErrorTexts}

\* the name under which the fallback functions look up their credential
ALPHA_VANTAGE_API_KEY == <<"A", "L", "P", "H", "A", "_", "V", "A", "N", "T", "A", "G", "E", "_", "A", "P", "I", "_", "K", "E", "Y">>

NL == <<"\n">>

\* the character U+FEFF, which content.lstrip removes
BOM == "BOM"

\* open('.env') raises FileNotFoundError
NoEnvFile == [exists |-> FALSE, content |-> <<>>]

EnvFile(content) == [exists |-> TRUE, content |-> content]

\* the .env files the agent can find in its working directory
EnvFiles ==
    {NoEnvFile,
     EnvFile(<<>>),
     EnvFile(<<"G", "R", "O", "Q", "_", "A", "P", "I", "_", "K", "E", "Y", "=", "g", "s", "k", "_", "1">> \o NL),
     EnvFile(<<"A", "L", "P", "H", "A", "_", "V", "A", "N", "T", "A", "G", "E", "_", "A", "P", "I", "_", "K", "E", "Y">> \o NL),
     EnvFile(<<"#", " ", "A", "L", "P", "H", "A", "_", "V", "A", "N", "T", "A", "G", "E", "_", "A", "P", "I", "_", "K", "E", "Y", "=", "d", "e", "m", "o">> \o NL),
     EnvFile(<<"G", "R", "O", "Q", "_", "A", "P", "I", "_", "K", "E", "Y", "=", "g", "s", "k", "_", "1">> \o NL \o <<"A", "L", "P", "H", "A", "_", "V", "A", "N", "T", "A", "G", "E", "_", "A", "P", "I", "_", "K", "E", "Y", "=">> \o NL),
     EnvFile(<<"A", "L", "P", "H", "A", "_", "V", "A", "N", "T", "A", "G", "E", "_", "A", "P", "I", "_", "K", "E", "Y", " ", "=", " ", " ">>),
     EnvFile(<<"A", "L", "P", "H", "A", "_", "V", "A", "N", "T", "A", "G", "E", "_", "A", "P", "I", "_", "K", "E", "Y", "=", "d", "e", "m", "o">> \o NL \o <<"A", "L", "P", "H", "A", "_", "V", "A", "N", "T", "A", "G", "E", "_", "A", "P", "I", "_", "K", "E", "Y", "=">>),
     EnvFile(<<"A", "L", "P", "H", "A", "_", "V", "A", "N", "T", "A", "G", "E", "_", "A", "P", "I", "_", "K", "E", "Y", "=", "d", "e", "m", "o">> \o NL),
     EnvFile(<<BOM>> \o <<"G", "R", "O", "Q", "_", "A", "P", "I", "_", "K", "E", "Y", "=", "g", "s", "k", "_", "1">> \o NL \o NL \o <<" ", " ", "A", "L", "P", "H", "A", "_", "V", "A", "N", "T", "A", "G", "E", "_", "A", "P", "I", "_", "K", "E", "Y", " ", "=", " ", "a", "=", "b", " ">> \o NL)}

\* content = content.lstrip(U+FEFF)
lstrip_bom(content) ==
    SubSeq(content,
           Min({i \in 1..(Len(content) + 1) : i = Len(content) + 1 \/ content[i] # BOM}),
           Len(content))

\* str.find(c) for a character that occurs in s
find(s, c) == Min({i \in 1..Len(s) : s[i] = c})

\* the rest of a text after position n
AfterLine(content, n) == SubSeq(content, n + 1, Len(content))

\* content.splitlines()
RECURSIVE splitlines(_)
splitlines(content) ==
    IF content = <<>> THEN <<>>
    ELSE IF "\n" \notin Range(content) THEN <<content>>
    ELSE <<SubSeq(content, 1, find(content, "\n") - 1)>>
         \o splitlines(AfterLine(content, find(content, "\n")))

\* if line and not line.startswith('#') and '=' in line   (line is stripped)
is_assignment(line) == line # <<>> /\ line[1] # "#" /\ "=" \in Range(line)

\* key, value = line.split('=', 1); env_vars[key.strip()] = value.strip()
assignment(line) ==
    <<strip(SubSeq(line, 1, find(line, "=") - 1)), strip(AfterLine(line, find(line, "=")))>>

\* the loop over the lines of the file: the assignments in the order of the file
RECURSIVE env_assignments(_)
env_assignments(lines) ==
    IF lines = <<>> THEN <<>>
    ELSE (IF is_assignment(strip(Head(lines))) THEN <<assignment(strip(Head(lines)))>> ELSE <<>>)
         \o env_assignments(Tail(lines))

\* _load_env_file(): the assignments of the .env file, none when there is no file
load_env_file(file) ==
    IF file.exists THEN env_assignments(splitlines(lstrip_bom(file.content))) ELSE <<>>

\* env_vars.get(key): a later assignment to a key replaces an earlier one
env_get(env_vars, key) ==
    IF \E i \in 1..Len(env_vars) : env_vars[i][1] = key
    THEN env_vars[Max({i \in 1..Len(env_vars) : env_vars[i][1] = key})][2]
    ELSE None

no_api_key_only_when_missing(api_key) == api_key = None

\* if not api_key:
no_api_key(api_key) == api_key = None \/ api_key = <<>>

\* what a fallback function meets: its .env file, which it can read or
\* which raises on reading (env_raise), and what the request would do if it
\* is sent: raise, answer without data, or answer with data (for
\* get_historical_data, the closing prices of the time series)
FallbackOutcomes(name) ==
    {[env |-> EnvFile(<<>>), kind |-> "env_raise", err |-> e, closes |-> <<>>] : e \in ErrorTexts}
    \cup {[env |-> f, kind |-> k, err |-> <<>>, closes |-> <<>>] :
             f \in EnvFiles, k \in {"no_data", "ok"}}
    \cup {[env |-> f, kind |-> "request_raise", err |-> e, closes |-> <<>>] :
             f \in EnvFiles, e \in ErrorTexts}
    \cup (IF name = "get_historical_data"
          THEN {[env |-> f, kind |-> "ok", err |-> <<>>, closes |-> c] :
                   f \in EnvFiles, c \in HistoryCloses}
          ELSE {})

\* the way a fallback function takes through its code: the except clause
\* from _load_env_file, the return under 'if not api_key:', or the request
\* and what follows it
fallback_path(o) ==
    IF o.kind = "env_raise" THEN "env_raise"
    ELSE IF no_api_key(env_get(load_env_file(o.env), ALPHA_VANTAGE_API_KEY)) THEN "no_key"
    ELSE o.kind

\* f"{x:.2f}" of the number num/den, in hundredths, rounded to the nearest
Hundredths(num, den) ==
    IF 2 * ((num * 100) % den) > den \/ (2 * ((num * 100) % den) = den /\ ((num * 100) \div den) % 2 = 1)
    THEN ((num * 100) \div den) + 1
    ELSE (num * 100) \div den

\* the three lines of a history text: latest close, previous close, change
HistoryValue(latest, previous) ==
    [t |-> "history", latest |-> Hundredths(latest, 1), previous |-> Hundredths(previous, 1),
     change |-> Hundredths((latest - previous) * 100, previous)]

\* latest_price = hist['Close'].iloc[-1]
\* previous_price = hist['Close'].iloc[-2] if len(hist) > 1 else latest_price
history_value(closes) ==
    HistoryValue(closes[Len(closes)],
                 IF Len(closes) > 1 THEN closes[Len(closes) - 1] ELSE closes[Len(closes)])

\* if time_series_key and data[time_series_key]: ... if len(dates) >= 2:
\* fails, and the function goes on to its last return
history_fallback_no_data(name, o) == name = "get_historical_data" /\ Len(o.closes) < 2

\* latest_close = time_series[dates[0]], previous_close = time_series[dates[1]],
\* dates sorted in reverse
alpha_vantage_history_value(closes) ==
    HistoryValue(closes[Len(closes)], closes[Len(closes) - 1])

\* the text a tool returns when its primary call succeeds
primary_ok_text(name, sym) ==
    CASE name \in {"get_stock_price", "get_crypto_price"} ->
            Text("Current price of {symbol}: ${price}", sym, <<>>, NoValue)
      [] name = "get_stock_info" ->
            Text("Stock Information for {symbol}:", sym, <<>>, NoValue)
      [] name = "get_historical_data" ->
            Text("Historical data for {symbol} ({period}):", sym, <<>>, NoValue)
      [] name = "calculate_average_price" ->
            Text("Average price of {symbol} over last {days} days: ${avg}", sym, <<>>, NoValue)

\* hist.empty
primary_empty_text(name, sym) ==
    IF name = "get_historical_data"
    THEN Text("No historical data available for {symbol}", sym, <<>>, NoValue)
    ELSE Text("No data available for {symbol}", sym, <<>>, NoValue)

\* the last line of each except clause: the error text of the tool
primary_error_text(name, sym, e) ==
    CASE name = "get_stock_price" -> Text("Error fetching price for {symbol}: {e}", sym, e, NoValue)
      [] name = "get_stock_info" -> Text("Error fetching info for {symbol}: {e}", sym, e, NoValue)
      [] name = "get_historical_data" ->
            Text("Error fetching historical data for {symbol}: {e}", sym, e, NoValue)
      [] name = "calculate_average_price" ->
            Text("Error calculating average for {symbol}: {e}", sym, e, NoValue)
      [] name = "get_crypto_price" ->
            Text("Error fetching crypto price for {symbol}: {e}", sym, e, NoValue)

\* the _..._alpha_vantage function of a tool, given what it meets
fallback_text(name, sym, o) ==
    IF fallback_path(o) = "no_key"
    THEN Text("Alpha Vantage API key not configured for {symbol}", sym, <<>>, NoValue)
    ELSE IF fallback_path(o) \in {"env_raise", "request_raise"} THEN
        CASE name = "get_stock_price" ->
                Text("Error fetching price from Alpha Vantage for {symbol}: {e}", sym, o.err, NoValue)
          [] name = "get_stock_info" ->
                Text("Error fetching detailed info from Alpha Vantage for {symbol}: {e}", sym, o.err, NoValue)
          [] name = "get_historical_data" ->
                Text("Error fetching historical data from Alpha Vantage for {symbol}: {e}", sym, o.err, NoValue)
          [] name = "calculate_average_price" ->
                Text("Error calculating average from Alpha Vantage for {symbol}: {e}", sym, o.err, NoValue)
          [] name = "get_crypto_price" ->
                Text("Error fetching crypto price from Alpha Vantage for {symbol}: {e}", sym, o.err, NoValue)
    ELSE IF fallback_path(o) = "no_data" \/ history_fallback_no_data(name, o) THEN
        CASE name = "get_stock_price" ->
                Text("No data available for {symbol} from Alpha Vantage", sym, <<>>, NoValue)
          [] name = "get_stock_info" ->
                Text("No detailed data available for {symbol} from Alpha Vantage", sym, <<>>, NoValue)
          [] name = "get_historical_data" ->
                Text("No historical data available for {symbol} from Alpha Vantage", sym, <<>>, NoValue)
          [] name = "calculate_average_price" ->
                Text("No data available for calculating average of {symbol} from Alpha Vantage", sym, <<>>, NoValue)
          [] name = "get_crypto_price" ->
                Text("No crypto data available for {symbol} from Alpha Vantage", sym, <<>>, NoValue)
    ELSE
        CASE name \in {"get_stock_price", "get_crypto_price"} ->
                Text("Current price of {symbol} (Alpha Vantage): ${price}", sym, <<>>, NoValue)
          [] name = "get_stock_info" ->
                Text("Stock Information for {symbol} (Alpha Vantage):", sym, <<>>, NoValue)
          [] name = "get_historical_data" ->
                Text("Historical data for {symbol} ({period}) - Alpha Vantage:", sym, <<>>,
                     alpha_vantage_history_value(o.closes))
          [] name = "calculate_average_price" ->
                Text("Average price of {symbol} over last {n} days (Alpha Vantage): ${avg}", sym, <<>>, NoValue)

\* the texts that only a fallback function produces
FallbackFormats ==
    UNION {{fallback_text(name, <<>>, o).fmt : o \in FallbackOutcomes(name)} : name \in MarketTools}

\* the fixed prompts of chat
SymbolPromptCrypto == "Por favor especifica el símbolo de la acción o criptomoneda (ej: Apple, Tesla, Bitcoin, AAPL, TSLA)"
SymbolPromptStock == "Por favor especifica el símbolo de la acción (ej: Apple, Tesla, AAPL, TSLA)"
ExpressionPrompt == "Por favor proporciona una expresión matemática válida (ej: 2+2, 15% of 250)"

\* the except clause of chat
chat_except_reraise(e) == [pc |-> "raised", response |-> Text("", <<>>, e, NoValue)]

chat_except(e) ==
    [pc |-> "returned", response |-> Text("Error processing your request: {e}", <<>>, e, NoValue)]
---------------------------------------------------------------------------
(* The values of the programs that own an agent *)

\* a value not yet read
Unset == <<"unset">>

\* st.session_state of a new session: it has no key; keys is the set of the
\* keys it has, messages and agent are their values once they are set
NewSession == [keys |-> {}, messages |-> <<>>, agent |-> None]

\* test_agent.py has not been run: no key read, no question asked, no call made
TestReady == [pc |-> "ready", key |-> Unset, asked |-> 0, calls |-> <<>>, result |-> "none"]


---------------------------------------------------------------------------
(* chat: from the message to the call of the tool function *)

NoResponse == Text("", <<>>, <<>>, NoValue)

\* the period and the number of days that chat passes to the two history tools
DefaultDays == 7
DefaultPeriod == <<"1", "m", "o">>
ToolArg(period, days) == [period |-> period, days |-> days]
NoArg == ToolArg(<<>>, 0)

\* a test for None only: the empty str passes
Truthy_not_none(s) == s # None

\* if symbol: / if expression:
Truthy(s) == s # None /\ s # <<>>

Dispatch(name, sym, expr, arg, next, resp) ==
    [tool_name |-> name, symbol |-> sym, expression |-> expr, tool_arg |-> arg,
     pc |-> next, response |-> resp]

\* the body of chat up to the call of tool_func or of the completion provider:
\* pc is "sleep" (a market-data tool is entered), "search", "calc", "llm",
\* or "returned" with a fixed prompt
dispatch(name, sym, expr) ==
        IF name # NoTool /\ tool_func_found(name) THEN
            IF name \in {"get_stock_price", "get_stock_info", "get_crypto_price"} THEN
                IF Truthy(sym)
                THEN Dispatch(name, sym, None, NoArg, "sleep", NoResponse)
                ELSE Dispatch(name, sym, None, NoArg, "returned",
                              Text(SymbolPromptCrypto, <<>>, <<>>, NoValue))
            ELSE IF name \in {"get_historical_data", "calculate_average_price"} THEN
                IF Truthy(sym)
                THEN Dispatch(name, sym, None,
                              IF name = "get_historical_data"
                              THEN ToolArg(DefaultPeriod, 0) ELSE ToolArg(<<>>, DefaultDays),
                              "sleep", NoResponse)
                ELSE Dispatch(name, sym, None, NoArg, "returned",
                              Text(SymbolPromptStock, <<>>, <<>>, NoValue))
            ELSE IF name = "web_search" THEN
                Dispatch(name, None, None, NoArg, "search", NoResponse)
            ELSE IF name = "mathematical_calculation" THEN
                IF Truthy(expr)
                THEN Dispatch(name, None, expr, NoArg, "calc", NoResponse)
                ELSE Dispatch(name, None, expr, NoArg, "returned",
                              Text(ExpressionPrompt, <<>>, <<>>, NoValue))
            ELSE \* no branch assigns result: UnboundLocalError, caught by chat
                Dispatch(name, None, None, NoArg, chat_except(<<"U", "n", "b", "o", "u", "n", "d", "L", "o", "c", "a", "l", "E", "r", "r", "o", "r">>).pc,
                         chat_except(<<"U", "n", "b", "o", "u", "n", "d", "L", "o", "c", "a", "l", "E", "r", "r", "o", "r">>).response)
        ELSE Dispatch(name, None, None, NoArg, "llm", NoResponse)

chat_dispatch(msg) ==
    dispatch(decide_tool(msg), extract_symbol_robust(msg), extract_expression(msg))

\* the text of a tool whose primary call returned data: for
\* get_historical_data, with the closes and the change computed from them
primary_ok(name, sym, o) ==
    IF name = "get_historical_data"
    THEN [primary_ok_text(name, sym) EXCEPT !.value = history_value(o.closes)]
    ELSE primary_ok_text(name, sym)

\* a market-data tool after its primary call did o
after_primary(name, sym, o) ==
    IF o.kind = "ok" THEN [pc |-> "returned", response |-> primary_ok(name, sym, o)]
    ELSE IF o.kind = "empty" THEN [pc |-> "returned", response |-> primary_empty_text(name, sym)]
    ELSE IF is_rate_limit(o.err) THEN [pc |-> "fallback", response |-> NoResponse]
    ELSE [pc |-> "returned", response |-> primary_error_text(name, sym, o.err)]

\* what a fallback function does before it returns
fallback_events(o) ==
    IF fallback_path(o) \in {"env_raise", "no_key"}
    THEN <<"fallback", "load_env">>
    ELSE <<"fallback", "load_env", "request">>

\* web_search(query)
SearchOutcomes ==
    {[kind |-> k, err |-> <<>>] : k \in {"results", "no_results"}}
    \cup {[kind |-> "raise", err |-> e] : e \in ErrorTexts}

web_search_text(o) ==
    IF o.kind = "results" THEN Text("Search results:", <<>>, <<>>, NoValue)
    ELSE IF o.kind = "no_results" THEN Text("No search results found", <<>>, <<>>, NoValue)
    ELSE Text("Error performing web search: {e}", <<>>, o.err, NoValue)

\* self.llm.invoke(message): an object with .content, an object without, or an exception
CompletionTexts == {<<"W", "h", "y", " ", "d", "i", "d", " ", "t", "h", "e", " ", "b", "u", "l", "l", " ", "c", "r", "o", "s", "s", " ", "t", "h", "e", " ", "r", "o", "a", "d", "?">>, <<>>}

LlmOutcomes ==
    {[kind |-> k, text |-> t, err |-> <<>>] : k \in {"content", "no_content"}, t \in CompletionTexts}
    \cup {[kind |-> "raise", text |-> <<>>, err |-> e] : e \in ErrorTexts}

NoResult == [env |-> NoEnvFile, kind |-> "none", err |-> <<>>, closes |-> <<>>]
NoLlmResult == [kind |-> "none", text |-> <<>>, err |-> <<>>]

\* return response.content if hasattr(response, 'content') else str(response)
llm_text(o) == Text("{response}", <<>>, <<>>, [t |-> "completion", text |-> o.text])

---------------------------------------------------------------------------
(* The messages of the model *)

\* one word or phrase for each stage of _decide_tool, two names of the symbol
\* dictionary, a word that only the symbol pattern takes, and stoplist words
Words ==
    {<<"2", "+", "2">>, <<"s", "q", "r", "t", "(", "1", "6", ")">>, <<"t", "a", "n", "g", "e", "n", "t">>, <<"p", "r", "i", "c", "e">>, <<"b", "i", "t", "c", "o", "i", "n">>, <<"i", "n", "f", "o">>,
     <<"l", "a", "s", "t", " ", "w", "e", "e", "k">>, <<"a", "v", "e", "r", "a", "g", "e">>, <<"n", "e", "w", "s">>, <<"A", "p", "p", "l", "e">>, <<"W", "h", "a", "t">>, <<"t", "h", "e", " ", "d", "a", "y">>}

TellMeAJoke == <<"T", "e", "l", "l", " ", "m", "e", " ", "a", " ", "j", "o", "k", "e">>
WhatIsTheDay == <<"W", "h", "a", "t", " ", "i", "s", " ", "t", "h", "e", " ", "d", "a", "y">>
TeslaAverage == <<"C", "a", "l", "c", "u", "l", "a", "t", "e", " ", "t", "h", "e", " ", "a", "v", "e", "r", "a", "g", "e", " ", "p", "r", "i", "c", "e", " ", "o", "f", " ", "T", "e", "s", "l", "a", " ", "o", "v", "e", "r", " ", "t", "h", "e", " ", "l", "a", "s", "t", " ", "w", "e", "e", "k">>
PercentQuestion == <<"W", "h", "a", "t", "'", "s", " ", "1", "5", "%", " ", "o", "f", " ", "2", "5", "0", "?">>
PercentCalculate == <<"C", "a", "l", "c", "u", "l", "a", "t", "e", " ", "1", "5", "%", " ", "o", "f", " ", "2", "5", "0">>
BitcoinYesterday == <<"W", "h", "a", "t", " ", "w", "a", "s", " ", "B", "i", "t", "c", "o", "i", "n", "'", "s", " ", "p", "r", "i", "c", "e", " ", "y", "e", "s", "t", "e", "r", "d", "a", "y", "?">>
AppleQuestion == <<"W", "h", "a", "t", "'", "s", " ", "t", "h", "e", " ", "c", "u", "r", "r", "e", "n", "t", " ", "p", "r", "i", "c", "e", " ", "o", "f", " ", "A", "p", "p", "l", "e", " ", "s", "t", "o", "c", "k", "?">>
TwoPlusTwo == <<"W", "h", "a", "t", " ", "i", "s", " ", "2", " ", "+", " ", "2", "?">>

\* a price keyword and no word that the resolver takes for a symbol
PrecioQuestion == <<"¿", "C", "u", "á", "l", " ", "e", "s", " ", "e", "l", " ", "p", "r", "e", "c", "i", "o", "?">>
\* two matches of the first extraction pattern, the longer one second
TwoSums == <<"W", "h", "a", "t", " ", "i", "s", " ", "1", "+", "1", " ", "o", "r", " ", "1", "0", "*", "3", "0", "?">>

Examples ==
    {TellMeAJoke, WhatIsTheDay, TeslaAverage, PercentQuestion, PercentCalculate,
     BitcoinYesterday, AppleQuestion, TwoPlusTwo, PrecioQuestion, TwoSums}

RECURSIVE WordSeqs(_)
\* the messages of exactly n words
WordSeqs(n) ==
    IF n = 0 THEN {<<>>}
    ELSE IF n = 1 THEN Words
    ELSE {m \o <<" ">> \o w : m \in WordSeqs(n - 1), w \in Words}

Messages == Examples \cup UNION {WordSeqs(n) : n \in 0..MaxWords}

---------------------------------------------------------------------------
(* The state machine: one call of chat at a time *)

\* no call of chat is in progress
agent_idle ==
    /\ pc = "idle"
    /\ message = <<>>
    /\ tool_name = NoTool
    /\ symbol = None
    /\ expression = None
    /\ tool_arg = NoArg
    /\ events = <<>>
    /\ primary_result = NoResult
    /\ fallback_result = NoResult
    /\ llm_result = NoLlmResult
    /\ response = NoResponse

\* no session of the app and no run of the test driver has started; key is
\* what load_env_file finds for GROQ_API_KEY
app_not_started(key) ==
    /\ groq_api_key = key
    /\ session_state = NewSession
    /\ app_calls = <<>>
    /\ test_run = TestReady

Init == agent_idle /\ app_not_started(None)

\* the state of the call after the dispatch d
chat_enter(msg, d) ==
    /\ message' = msg
    /\ tool_name' = d.tool_name
    /\ symbol' = d.symbol
    /\ expression' = d.expression
    /\ tool_arg' = d.tool_arg
    /\ pc' = d.pc
    /\ response' = d.response
    /\ events' = IF d.pc \in {"sleep", "search", "calc"} THEN <<"tool_func">> ELSE <<>>

\* chat(message), up to the first call it makes
chat(msg) ==
    /\ pc = "idle"
    /\ chat_enter(msg, chat_dispatch(msg))
    /\ UNCHANGED <<primary_result, fallback_result, llm_result>>
    /\ UNCHANGED app_vars

\* time.sleep(2), the first statement of every market-data tool
tool_sleep ==
    /\ pc = "sleep"
    /\ pc' = "primary"
    /\ events' = Append(events, "sleep")
    /\ UNCHANGED <<message, tool_name, symbol, expression, tool_arg, primary_result,
                   fallback_result, llm_result, response>>
    /\ UNCHANGED app_vars

\* the yfinance call of the tool and the except clause that follows it
tool_primary ==
    /\ pc = "primary"
    /\ \E o \in PrimaryOutcomes(tool_name) :
          /\ primary_result' = o
          /\ pc' = after_primary(tool_name, symbol, o).pc
          /\ response' = after_primary(tool_name, symbol, o).response
    /\ events' = Append(events, "primary")
    /\ UNCHANGED <<message, tool_name, symbol, expression, tool_arg, fallback_result,
                   llm_result>>
    /\ UNCHANGED app_vars

\* the _..._alpha_vantage function of the tool
tool_fallback ==
    /\ pc = "fallback"
    /\ \E o \in FallbackOutcomes(tool_name) :
          /\ fallback_result' = o
          /\ response' = fallback_text(tool_name, symbol, o)
          /\ events' = events \o fallback_events(o)
    /\ pc' = "returned"
    /\ UNCHANGED <<message, tool_name, symbol, expression, tool_arg, primary_result,
                   llm_result>>
    /\ UNCHANGED app_vars

\* web_search(message)
web_search ==
    /\ pc = "search"
    /\ \E o \in SearchOutcomes : response' = web_search_text(o)
    /\ events' = Append(events, "search")
    /\ pc' = "returned"
    /\ UNCHANGED <<message, tool_name, symbol, expression, tool_arg, primary_result,
                   fallback_result, llm_result>>
    /\ UNCHANGED app_vars

\* mathematical_calculation(expression)
calculation ==
    /\ pc = "calc"
    /\ \E builtins_is_dict \in BOOLEAN :
          response' = mathematical_calculation(expression, builtins_is_dict)
    /\ events' = Append(events, "eval")
    /\ pc' = "returned"
    /\ UNCHANGED <<message, tool_name, symbol, expression, tool_arg, primary_result,
                   fallback_result, llm_result>>
    /\ UNCHANGED app_vars

\* self.llm.invoke(message), inside the try of chat
llm_invoke ==
    /\ pc = "llm"
    /\ \E o \in LlmOutcomes :
          /\ llm_result' = o
          /\ IF o.kind = "raise"
             THEN pc' = chat_except(o.err).pc /\ response' = chat_except(o.err).response
             ELSE pc' = "returned" /\ response' = llm_text(o)
    /\ events' = Append(events, "llm")
    /\ UNCHANGED <<message, tool_name, symbol, expression, tool_arg, primary_result,
                   fallback_result>>
    /\ UNCHANGED app_vars

\* chat has returned (or raised); the agent keeps nothing of the turn
chat_return ==
    /\ pc \in {"returned", "raised"}
    /\ pc' = "idle"
    /\ message' = <<>>
    /\ tool_name' = NoTool
    /\ symbol' = None
    /\ expression' = None
    /\ tool_arg' = NoArg
    /\ events' = <<>>
    /\ primary_result' = NoResult
    /\ fallback_result' = NoResult
    /\ llm_result' = NoLlmResult
    /\ response' = NoResponse
    /\ UNCHANGED app_vars

Next ==
    \/ \E msg \in Messages : chat(msg)
    \/ tool_sleep
    \/ tool_primary
    \/ tool_fallback
    \/ web_search
    \/ calculation
    \/ llm_invoke
    \/ chat_return

Spec == Init /\ [][Next]_vars

---------------------------------------------------------------------------
(* Properties *)

\* a call of chat is in progress, between its entry and its return
InCall == pc \in {"sleep", "primary", "fallback", "search", "calc", "llm"}

\* a step of the call in progress
CallStep == tool_sleep \/ tool_primary \/ tool_fallback \/ web_search \/ calculation \/ llm_invoke

\* the formats of the texts that chat can return
ResultFormats ==
    {primary_ok_text(n, <<>>).fmt : n \in MarketTools}
    \cup {primary_empty_text(n, <<>>).fmt : n \in MarketTools}
    \cup UNION {{fallback_text(n, <<>>, o).fmt :
                    o \in {x \in FallbackOutcomes(n) : fallback_path(x) \in {"ok", "no_data", "no_key"}}} :
                 n \in MarketTools}
    \cup {"Search results:", "No search results found", "Result: {result}", "{response}",
          SymbolPromptCrypto, SymbolPromptStock, ExpressionPrompt}

ProblemFormats ==
    {primary_error_text(n, <<>>, <<>>).fmt : n \in MarketTools}
    \cup UNION {{fallback_text(n, <<>>, o).fmt :
                    o \in {x \in FallbackOutcomes(n) : fallback_path(x) = "request_raise"}} :
                 n \in MarketTools}
    \cup {"Error performing web search: {e}", "Error in calculation: {e}",
          "Error processing your request: {e}"}

\* C1: chat never raises.  Whatever the classifier, the resolver, the providers,
\* the search, the calculation and the completion provider do, a call of chat
\* never ends by an exception, a call in progress can always take its next
\* step, and it ends by returning a text: a result text or a text that
\* describes the problem.
C1_ChatNeverRaises ==
    /\ pc # "raised"
    /\ InCall => ENABLED CallStep
    /\ pc = "returned" => response.fmt \in ResultFormats \cup ProblemFormats
    /\ pc = "returned" /\ llm_result.kind = "raise" =>
          response = Text("Error processing your request: {e}", <<>>, llm_result.err, NoValue)

\* the completion provider failed and chat returned the text of the failure
C1_Witness ==
    /\ pc = "returned"
    /\ llm_result.kind = "raise"
    /\ response.fmt = "Error processing your request: {e}"

\* chat has just classified the message and extracted the argument: the state
\* in which the results of _decide_tool and of the extraction are read
Classified == pc # "idle" /\ Len(events) <= 1 /\ events # <<"llm">>

\* digit-operator-digit, 'N % of M', 'sqrt(' or a sin(/cos(/tan( call, in any
\* letter case, somewhere in the lower-cased message
ArithmeticShapeIn(message_lower) ==
    \E i \in 1..Len(message_lower) :
        \/ basic_op_end(message_lower, i) # 0
        \/ percent_of_end(message_lower, i) # 0
        \/ call_open(message_lower, i, <<"s", "q", "r", "t">>) # 0
        \/ \E k \in DOMAIN TrigNames : call_open(message_lower, i, TrigNames[k]) # 0

HasArithmeticShape(msg) == ArithmeticShapeIn(lower(msg))

\* a keyword of a later stage, or a name of the symbol dictionary
HasOtherKeyword(msg) ==
    \/ price_patterns_match(lower(msg))
    \/ info_patterns_match(lower(msg))
    \/ historical_patterns_match(lower(msg))
    \/ average_patterns_match(lower(msg))
    \/ search_patterns_match(lower(msg))
    \/ mapping_lookup(upper(msg)) # None

\* C2: every message that contains an arithmetic shape is classified as
\* mathematical_calculation, never as get_stock_price, whatever keywords or
\* ticker-like tokens it also contains.
C2_ArithmeticShapeIsCalculation ==
    (Classified /\ HasArithmeticShape(message)) => tool_name = "mathematical_calculation"

\* a message with an arithmetic shape and a keyword of a later stage, classified
C2_Witness ==
    /\ Classified
    /\ HasArithmeticShape(message)
    /\ HasOtherKeyword(message)
    /\ tool_name = "mathematical_calculation"

\* the stages of the cascade, in the order of _decide_tool
StageMatches(k, msg) ==
    CASE k = 1 -> math_patterns_match(lower(msg))
      [] k = 2 -> math_operators_match(msg)
      [] k = 3 -> price_patterns_match(lower(msg))
      [] k = 4 -> info_patterns_match(lower(msg))
      [] k = 5 -> historical_patterns_match(lower(msg))
      [] k = 6 -> average_patterns_match(lower(msg))
      [] k = 7 -> search_patterns_match(lower(msg))
      [] k = 8 -> extract_symbol_robust(msg) # None

StageTool(k, msg) ==
    CASE k \in {1, 2} -> "mathematical_calculation"
      [] k = 3 -> IF crypto_names_match(lower(msg)) THEN "get_crypto_price" ELSE "get_stock_price"
      [] k = 4 -> "get_stock_info"
      [] k = 5 -> "get_historical_data"
      [] k = 6 -> "calculate_average_price"
      [] k = 7 -> "web_search"
      [] k = 8 -> "get_stock_price"

MatchingStages(msg) == {k \in 1..8 : StageMatches(k, msg)}

LowestStageTool(stages, msg) ==
    IF stages = {} THEN NoTool ELSE StageTool(Min(stages), msg)

\* C3: _decide_tool is a first-match-wins cascade: the result is the
\* capability of the lowest-numbered stage that matches the message, and none
\* when no stage matches.
C3_FirstMatchWins ==
    Classified => tool_name = LowestStageTool(MatchingStages(message), message)

\* a message that two stages match, decided by the earlier one
C3_Witness ==
    /\ Classified
    /\ StageMatches(5, message)
    /\ StageMatches(6, message)
    /\ ~StageMatches(4, message)
    /\ tool_name = "get_historical_data"

\* a rate-limit signal: the error text contains '429' or 'Too Many Requests'
RateLimitSignal(e) == Contains(e, <<"4", "2", "9">>) \/ Contains(e, <<"T", "o", "o", " ", "M", "a", "n", "y", " ", "R", "e", "q", "u", "e", "s", "t", "s">>)

\* the primary call of the invocation failed with a rate-limit signal
PrimaryRateLimited ==
    /\ tool_name \in MarketTools
    /\ primary_result.kind = "raise"
    /\ RateLimitSignal(primary_result.err)

\* C4: when the primary call of a market-data capability fails with a
\* rate-limit signal, the capability goes on to its fallback function and
\* returns the text that the fallback produces (also when the fallback
\* fails); no exception is raised and the text of the primary's error is not
\* what is returned.
C4_RateLimitGoesToFallback ==
    PrimaryRateLimited =>
        /\ pc \in {"fallback", "returned"}
        /\ pc = "returned" =>
              /\ response.fmt \in FallbackFormats
              /\ response # primary_error_text(tool_name, symbol, primary_result.err)
              /\ Contains(events, <<"primary", "fallback">>)

\* the primary was rate limited, the fallback failed too, and its text is returned
C4_Witness ==
    /\ PrimaryRateLimited
    /\ pc = "returned"
    /\ response.err # <<>>
    /\ response.fmt \in FallbackFormats

\* the events of a market-data tool come in the order sleep, primary, fallback
EventsInOrder ==
    \A k \in DOMAIN events :
        /\ events[k] = "primary" => k > 1 /\ events[k - 1] = "sleep"
        /\ events[k] = "sleep" => k > 1 /\ events[k - 1] = "tool_func"
        /\ events[k] = "fallback" => k > 1 /\ events[k - 1] = "primary"

Occurrences(e) == {k \in DOMAIN events : events[k] = e}

\* C5: in every invocation of a market-data capability the fixed delay comes
\* first, then the primary call, then, only if the primary call has failed
\* with a rate-limit signal, the fallback; when the primary succeeds or fails
\* with another error the fallback is not called, and the other error is
\* returned in a text that contains the original error text.
C5_DelayPrimaryFallbackOrder ==
    /\ EventsInOrder
    /\ Occurrences("fallback") # {} => PrimaryRateLimited
    /\ (pc = "returned" /\ tool_name \in MarketTools /\ Truthy(symbol)) =>
          /\ SubSeq(events, 1, 3) = <<"tool_func", "sleep", "primary">>
          /\ Cardinality(Occurrences("primary")) = 1
          /\ ~PrimaryRateLimited =>
                /\ Occurrences("fallback") = {}
                /\ primary_result.kind = "raise" =>
                      response = primary_error_text(tool_name, symbol, primary_result.err)

\* the primary failed with an error that is no rate-limit signal; no fallback,
\* and the error text is in the returned text
C5_Witness ==
    /\ pc = "returned"
    /\ tool_name \in MarketTools
    /\ primary_result.kind = "raise"
    /\ ~RateLimitSignal(primary_result.err)
    /\ Occurrences("fallback") = {}
    /\ response.err = primary_result.err

\* C6: "Tell me a joke" has no symbol and no keyword: _decide_tool returns
\* none, no capability is invoked, and chat returns the output of the
\* completion provider verbatim.
C6_JokeGoesToCompletion ==
    (message = TellMeAJoke /\ pc = "returned") =>
        /\ tool_name = NoTool
        /\ events = <<"llm">>
        /\ llm_result.kind # "raise" => response = llm_text(llm_result)

\* C7: the stoplist property: _extract_symbol_robust returns none for "What is
\* the day", a message of common English words with no dictionary name and no
\* ticker.
C7_StoplistGivesNone ==
    (message = WhatIsTheDay /\ Classified) => extract_symbol_robust(message) = None

\* C8: "Calculate the average price of Tesla over the last week" is classified
\* as calculate_average_price, resolved to TSLA, and the average capability is
\* invoked with TSLA and a window of 7 days.
C8_TeslaAverageOverSevenDays ==
    (message = TeslaAverage /\ Classified) =>
        /\ tool_name = "calculate_average_price"
        /\ symbol = <<"T", "S", "L", "A">>
        /\ tool_arg = ToolArg(<<>>, 7)

\* C9: "What's 15% of 250?" and "Calculate 15% of 250" are classified as
\* calculation, the expression extracted is '15% of 250', and chat returns a
\* result text with the value 15*250/100 = 37.5, not an error text.
C9_PercentOfGivesValue ==
    (message \in {PercentQuestion, PercentCalculate} /\ pc = "returned") =>
        /\ tool_name = "mathematical_calculation"
        /\ expression = <<"1", "5", "%", " ", "o", "f", " ", "2", "5", "0">>
        /\ response.fmt = "Result: {result}"
        /\ response.value = FloatVal(15 * 250, 100)

\* the keys of stock_mapping, by their place in the dictionary, that occur in
\* the upper-cased message
KeysOf(message_upper) ==
    {k \in DOMAIN stock_mapping : Contains(message_upper, stock_mapping[k][1])}

KeysIn(msg) == KeysOf(upper(msg))

\* the ticker of the earliest of the keys
FirstTicker(keys) == stock_mapping[Min(keys)][2]

\* C10: the resolver returns the ticker of the first key of the dictionary, in
\* insertion order, that occurs in the upper-cased message: a company name in
\* any letter case gives its ticker (Apple gives AAPL, bitcoin gives BTC), and
\* of several keys the earliest in the dictionary wins, wherever it stands in
\* the message.
C10_FirstDictionaryKeyWins ==
    (Classified /\ tool_name \in MarketTools /\ KeysIn(message) # {}) =>
        /\ symbol = FirstTicker(KeysIn(message))
        /\ message = AppleQuestion => symbol = <<"A", "A", "P", "L">>
        /\ message = BitcoinYesterday => symbol = <<"B", "T", "C">>
        /\ message \in {<<"b", "i", "t", "c", "o", "i", "n", " ", "A", "p", "p", "l", "e">>, <<"A", "p", "p", "l", "e", " ", "b", "i", "t", "c", "o", "i", "n">>} => symbol = <<"A", "A", "P", "L">>

\* bitcoin stands first in the message, Apple first in the dictionary
C10_Witness ==
    /\ Classified
    /\ message = <<"b", "i", "t", "c", "o", "i", "n", " ", "A", "p", "p", "l", "e">>
    /\ symbol = <<"A", "A", "P", "L">>

\* the crypto names of the nested test of the price stage
CryptoNames == {<<"b", "i", "t", "c", "o", "i", "n">>, <<"b", "t", "c">>, <<"e", "t", "h", "e", "r", "e", "u", "m">>, <<"e", "t", "h">>, <<"c", "r", "y", "p", "t", "o">>}

\* the price stage decides the classification of msg: no arithmetic stage
\* matches it and a price pattern does
PriceStageDecides(msg) ==
    /\ ~math_patterns_match(lower(msg))
    /\ ~math_operators_match(msg)
    /\ price_patterns_match(lower(msg))

MentionsCrypto(msg) == \E name \in CryptoNames : Contains(lower(msg), name)

\* C11: when the price stage decides and the message mentions a crypto name,
\* _decide_tool returns get_crypto_price, not get_stock_price, and chat enters
\* the crypto tool with the ticker that the resolver gives; for "What was
\* Bitcoin's price yesterday?" the ticker is BTC.
C11_CryptoNameRoutesToCryptoPrice ==
    (Classified /\ PriceStageDecides(message) /\ MentionsCrypto(message)) =>
        /\ tool_name = "get_crypto_price"
        /\ symbol = extract_symbol_robust(message)
        /\ Truthy(symbol) => pc = "sleep" /\ events = <<"tool_func">> /\ tool_arg = NoArg
        /\ message = BitcoinYesterday => symbol = <<"B", "T", "C">>

\* the crypto tool has made its primary call for "What was Bitcoin's price
\* yesterday?" with BTC
C11_Witness ==
    /\ message = BitcoinYesterday
    /\ tool_name = "get_crypto_price"
    /\ symbol = <<"B", "T", "C">>
    /\ pc = "returned"
    /\ events = <<"tool_func", "sleep", "primary">>
    /\ response = primary_ok_text("get_crypto_price", <<"B", "T", "C">>)

\* the branches of chat that a classified message can take: a tool is entered
\* or a fixed prompt is returned
HandledByBranch ==
    \/ pc = "sleep" /\ tool_name \in MarketTools
    \/ pc = "search" /\ tool_name = "web_search"
    \/ pc = "calc" /\ tool_name = "mathematical_calculation"
    \/ pc = "returned" /\ response.fmt \in {SymbolPromptCrypto, SymbolPromptStock, ExpressionPrompt}

\* C12: registry closure.  Every value of _decide_tool other than None is the
\* name of one of the seven registered tools, so the lookup of chat finds a
\* function, the message is handled by one of the argument-extraction
\* branches, and result is assigned before it is returned: the completion
\* provider is not entered and no UnboundLocalError is caught.
C12_RegistryClosure ==
    /\ Len(tools) = 7
    /\ (Classified /\ tool_name # NoTool) =>
          /\ tool_name \in Range(tools)
          /\ tool_func_found(tool_name)
          /\ HandledByBranch
          /\ pc # "llm"
          /\ response.fmt # "Error processing your request: {e}"

\* a message classified as get_crypto_price has entered the tool
C12_Witness ==
    /\ Classified
    /\ tool_name = "get_crypto_price"
    /\ pc = "sleep"
    /\ events = <<"tool_func">>

\* C13: _decide_tool is case-insensitive: a message and the messages that
\* differ from it only in the letter case of their characters (here the
\* message in capitals and the message in small letters) get the same result,
\* at every stage, the loose scan for sqrt, sin, cos, tan, log included.
C13_DecideToolIgnoresCase ==
    Classified =>
        /\ decide_tool(upper(message)) = tool_name
        /\ decide_tool(lower(message)) = tool_name

\* the capability needs a symbol and the resolver gives None
NoSymbolFor(msg) == tool_name \in MarketTools /\ extract_symbol_robust(msg) = None

\* the capability is the calculation and no non-empty expression is
\* extracted: no pattern matches, or the longest match trims to the empty str
NoExpressionFor(msg) ==
    tool_name = "mathematical_calculation" /\ extract_expression(msg) \in {None, <<>>}

\* the fixed prompt of the branch of chat that handles the tool
PromptFor(name) ==
    IF name \in {"get_stock_price", "get_stock_info", "get_crypto_price"} THEN SymbolPromptCrypto
    ELSE IF name \in {"get_historical_data", "calculate_average_price"} THEN SymbolPromptStock
    ELSE ExpressionPrompt

\* C15: bad input never reaches an adapter.  When the capability needs a
\* symbol and the resolver gives None, or the capability is the calculation
\* and no non-empty expression is extracted (a match of blanks that trims to
\* the empty str included), chat returns the fixed prompt of the branch and
\* calls neither the tool function, nor a provider, nor the completion provider.
C15_BadInputReachesNoAdapter ==
    (Classified /\ (NoSymbolFor(message) \/ NoExpressionFor(message))) =>
        /\ pc = "returned"
        /\ events = <<>>
        /\ response = Text(PromptFor(tool_name), <<>>, <<>>, NoValue)

\* 'tangent news' is a calculation by the loose scan; its only match is the
\* blank, which trims to the empty str, and chat returns the prompt
C15_Witness ==
    /\ message = <<"t", "a", "n", "g", "e", "n", "t", " ", "n", "e", "w", "s">>
    /\ tool_name = "mathematical_calculation"
    /\ expression = <<>>
    /\ pc = "returned"
    /\ events = <<>>
    /\ response.fmt = ExpressionPrompt

\* the calls that a turn can make, and the one tool whose function makes them
CallEvents == {"tool_func", "sleep", "primary", "fallback", "search", "eval", "llm"}

EventsOfTool(name) ==
    IF name \in MarketTools THEN {"tool_func", "sleep", "primary", "fallback", "load_env", "request"}
    ELSE IF name = "web_search" THEN {"tool_func", "search"}
    ELSE IF name = "mathematical_calculation" THEN {"tool_func", "eval"}
    ELSE {"llm"}

\* C16: one tool per turn.  In a call of chat at most one tool function is
\* invoked, once; inside it the primary provider and the fallback provider
\* are called at most once each; and the completion provider is called only
\* when _decide_tool returned None, never in a turn in which a capability was
\* selected, whether the capability succeeded or failed.
C16_OneToolPerTurn ==
    /\ \A e \in CallEvents : Cardinality(Occurrences(e)) <= 1
    /\ \A k \in DOMAIN events : events[k] \in EventsOfTool(tool_name)
    /\ (pc = "llm" \/ Occurrences("llm") # {}) => tool_name = NoTool
    /\ tool_name # NoTool => llm_result = NoLlmResult

\* a capability was selected and its primary call failed with an error that is
\* no rate-limit signal: the turn ends with the error text, without a retry
\* and without the completion provider
C16_Witness ==
    /\ pc = "returned"
    /\ tool_name = "get_stock_info"
    /\ events = <<"tool_func", "sleep", "primary">>
    /\ primary_result.kind = "raise"
    /\ response.fmt \in ProblemFormats
    /\ llm_result = NoLlmResult

\* expr is chosen from found, the matches of each extraction pattern in the
\* order of the list: None when no pattern has a match, else a longest match
\* of the first pattern that has one, trimmed
ChosenFrom(found, expr) ==
    IF \A k \in DOMAIN found : found[k] = <<>> THEN expr = None
    ELSE \E k \in DOMAIN found :
            /\ found[k] # <<>>
            /\ \A j \in 1..(k - 1) : found[j] = <<>>
            /\ \E m \in DOMAIN found[k] :
                  /\ \A n \in DOMAIN found[k] : Len(found[k][n]) <= Len(found[k][m])
                  /\ expr = strip(found[k][m])

\* C17: the expression extraction of chat tries the patterns in the order
\* basic operation, 'N% of M', sqrt(...), trig call, general run; of the first
\* pattern that has a match it takes the longest match, trimmed, whatever
\* longer matches the later patterns have; it gives None if no pattern matches.
C17_LongestMatchOfFirstPattern ==
    /\ extract_patterns = <<"basic_op", "percent_of", "sqrt_call", "trig_call", "general">>
    /\ (Classified /\ tool_name = "mathematical_calculation") =>
          /\ ChosenFrom(all_matches(message), expression)
          /\ message = TwoSums => expression = <<"1", "0", "*", "3", "0">>
          /\ message = <<"2", "+", "2", " ", "s", "q", "r", "t", "(", "1", "6", ")">> => expression = <<"2", "+", "2">>
          /\ message = <<"t", "a", "n", "g", "e", "n", "t">> => expression = None

\* of '1+1' and '10*30', both matches of the first pattern, the longer is taken
C17_Witness ==
    /\ Classified
    /\ message = TwoSums
    /\ tool_name = "mathematical_calculation"
    /\ expression = <<"1", "0", "*", "3", "0">>
    /\ pc = "calc"

\* the keywords of the first averaging pattern, and the words of time that
\* the second historical pattern takes
AverageWords == {<<"p", "r", "o", "m", "e", "d", "i", "o">>, <<"a", "v", "e", "r", "a", "g", "e">>, <<"m", "e", "d", "i", "a">>, <<"m", "e", "a", "n">>}
TimeWords ==
    {<<"l", "a", "s", "t">>, <<"w", "e", "e", "k">>, <<"m", "o", "n", "t", "h">>, <<"y", "e", "a", "r">>, <<"ú", "l", "t", "i", "m", "o">>, <<"s", "e", "m", "a", "n", "a">>, <<"m", "e", "s">>, <<"a", "ñ", "o">>}

\* C20: the averaging capability is selected by the first averaging pattern
\* only.  A message classified as calculate_average_price contains one of
\* promedio/average/media/mean and no keyword of the price, info or
\* historical stage, so no message with last, week, month, year (último,
\* semana, mes, año) is classified as average, and the second averaging
\* pattern (last week, last days) never decides.
C20_AverageOnlyByFirstPattern ==
    (Classified /\ tool_name = "calculate_average_price") =>
        /\ ContainsAny(lower(message), AverageWords)
        /\ ~ContainsAny(lower(message), TimeWords)
        /\ ~price_patterns_match(lower(message))
        /\ ~info_patterns_match(lower(message))
        /\ ~ContainsAny(lower(message), {<<"h", "i", "s", "t", "ó", "r", "i", "c", "o">>, <<"h", "i", "s", "t", "o", "r", "i", "c", "a", "l">>, <<"a", "y", "e", "r">>,
                                         <<"y", "e", "s", "t", "e", "r", "d", "a", "y">>, <<"c", "a", "m", "b", "i", "o">>, <<"c", "h", "a", "n", "g", "e">>, <<"t", "r", "e", "n", "d">>})

\* a message with 'average' and a company name is classified as average and
\* the tool is entered with a window of 7 days
C20_Witness ==
    /\ Classified
    /\ message = <<"a", "v", "e", "r", "a", "g", "e", " ", "A", "p", "p", "l", "e">>
    /\ tool_name = "calculate_average_price"
    /\ symbol = <<"A", "A", "P", "L">>
    /\ tool_arg = ToolArg(<<>>, DefaultDays)
    /\ pc = "sleep"

\* the turn went into the fallback function of its tool
FallbackEntered == Occurrences("fallback") # {}

\* the source of the history returned exactly one data point
OnePoint(result) == result.kind = "ok" /\ Len(result.closes) = 1

\* the text shows previous equal to latest and a change of 0.00%
ShowsNoChange(text) ==
    /\ text.value.t = "history"
    /\ text.value.previous = text.value.latest
    /\ text.value.change = 0

\* C18: when the source of get_historical_data returns exactly one data
\* point, previous is taken equal to latest and the change is reported as
\* 0.00%, on the primary path and on the fallback path alike.
C18_SinglePointChangeIsZero ==
    (pc = "returned" /\ tool_name = "get_historical_data") =>
        /\ OnePoint(primary_result) => ShowsNoChange(response)
        /\ (FallbackEntered /\ fallback_path(fallback_result) = "ok" /\ OnePoint(fallback_result)) =>
              ShowsNoChange(response)


\* the value that the .env file gives to the fallback credential, None when
\* the file is missing or has no assignment to it
Credential(file) == env_get(load_env_file(file), ALPHA_VANTAGE_API_KEY)

\* the fallback function read its .env file and the credential is absent or empty
CredentialMissing ==
    /\ fallback_result.kind # "env_raise"
    /\ Credential(fallback_result.env) \in {None, <<>>}

NotConfigured(sym) == Text("Alpha Vantage API key not configured for {symbol}", sym, <<>>, NoValue)

\* C21: when a fallback function is entered and ALPHA_VANTAGE_API_KEY is
\* absent from the .env file or empty in it, the function sends no request
\* and returns the text 'Alpha Vantage API key not configured for {symbol}';
\* this holds for each of the five fallback functions.
C21_NoCredentialNoRequest ==
    (pc = "returned" /\ FallbackEntered /\ CredentialMissing) =>
        /\ tool_name \in MarketTools
        /\ Occurrences("request") = {}
        /\ Occurrences("load_env") # {}
        /\ response = NotConfigured(symbol)

\* a rate-limited crypto price lookup whose .env file assigns the empty
\* value to the credential (after an earlier non-empty assignment)
C21_Witness ==
    /\ pc = "returned"
    /\ FallbackEntered
    /\ tool_name = "get_crypto_price"
    /\ Credential(fallback_result.env) = <<>>
    /\ fallback_result.env.content # <<>>
    /\ fallback_result.kind = "ok"
    /\ response = NotConfigured(symbol)
    /\ Occurrences("request") = {}
---------------------------------------------------------------------------
(* The Streamlit session of app.py and the run of test_agent.py.  Here the *)
(* agent is a collaborator: its constructor succeeds or raises, and a call *)
(* of chat returns a text or the try around it raises.                     *)

\* the longest conversation of a session, in submitted prompts
MaxPrompts == 2

\* env_vars.get("GROQ_API_KEY"): no such key, an empty value, a key
Keys == {None, <<>>, <<"g", "s", "k", "_", "1">>}

\* what the user submits to st.chat_input
Prompts == {TwoPlusTwo, AppleQuestion}

\* st.session_state.agent after initialize_agent
NoAgent == None
Agent == <<"StockMarketAgent">>

\* the texts that a call of chat returns to the app
AgentReplies ==
    {calculation_text(IntVal(4)), Text(SymbolPromptStock, <<>>, <<>>, NoValue)}

\* the try around agent.chat(prompt) and st.markdown(response): it ends
\* with a response, or raises
ChatOutcomes ==
    {[kind |-> "return", text |-> r, err |-> <<>>] : r \in AgentReplies}
    \cup {[kind |-> "raise", text |-> NoResponse, err |-> e] : e \in ErrorTexts}

Call(op, arg) == [op |-> op, arg |-> arg]

\* initialize_agent with the test of the key left out
initialize_agent_unchecked(key, ctor_ok) ==
    [agent |-> IF ctor_ok THEN Agent ELSE NoAgent, calls |-> <<Call("StockMarketAgent", key)>>]

\* initialize_agent(): None without a key, else the agent, or None when the
\* constructor raises
initialize_agent(key, ctor_ok) ==
    IF ~Truthy(key) THEN [agent |-> NoAgent, calls |-> <<>>]
    ELSE [agent |-> IF ctor_ok THEN Agent ELSE NoAgent,
          calls |-> <<Call("StockMarketAgent", key)>>]

Turn(role, content) == [role |-> role, content |-> content]

ConfigError == Text("Please configure your GROQ API key to use the agent.", <<>>, <<>>, NoValue)

\* the assistant turn for a prompt: the response, the text of the error, or
\* the fixed message when there is no agent
assistant_turn(agent, o) ==
    IF agent = Agent THEN
        IF o.kind = "return" THEN Turn("assistant", o.text)
        ELSE Turn("assistant", Text("Sorry, I encountered an error: {e}", <<>>, o.err, NoValue))
    ELSE Turn("assistant", ConfigError)

\* a prompt whose try raises leaves no assistant turn
after_prompt_silent_on_raise(messages, prompt, agent, o) ==
    IF agent = Agent /\ o.kind = "raise"
    THEN Append(messages, Turn("user", prompt))
    ELSE Append(Append(messages, Turn("user", prompt)), assistant_turn(agent, o))

\* st.session_state.messages after main has handled the prompt
after_prompt(messages, prompt, agent, o) ==
    Append(Append(messages, Turn("user", prompt)), assistant_turn(agent, o))

\* if st.session_state.agent: ... agent.chat(prompt)
prompt_calls(agent, prompt) == IF agent = Agent THEN <<Call("chat", prompt)>> ELSE <<>>

\* if "messages" not in st.session_state / if "agent" not in st.session_state
session_messages(ss) == IF "messages" \notin ss.keys THEN <<>> ELSE ss.messages
session_agent(ss, made) == IF "agent" \notin ss.keys THEN made.agent ELSE ss.agent
session_calls(ss, key, made) ==
    IF "agent" \notin ss.keys THEN <<Call("initialize_agent", key)>> \o made.calls ELSE <<>>

\* one run of main() of app.py, with the prompt that st.chat_input returns
\* (None: the script runs without a submitted prompt).  The input box exists
\* once the script has run, so a prompt comes only to a session that is set up.
main_run(prompt, made, o) ==
    /\ prompt # None =>
          /\ session_state.keys = {"messages", "agent"}
          /\ Len(session_state.messages) < 2 * MaxPrompts
    /\ session_state' =
          [keys |-> {"messages", "agent"},
           messages |-> IF prompt = None THEN session_messages(session_state)
                        ELSE after_prompt(session_messages(session_state), prompt,
                                          session_agent(session_state, made), o),
           agent |-> session_agent(session_state, made)]
    /\ app_calls' = app_calls \o session_calls(session_state, groq_api_key, made)
                       \o (IF prompt = None THEN <<>>
                           ELSE prompt_calls(session_agent(session_state, made), prompt))
    /\ UNCHANGED <<groq_api_key, test_run>>
    /\ UNCHANGED agent_vars

main(prompt) ==
    \E ctor_ok \in BOOLEAN, o \in ChatOutcomes :
        main_run(prompt, initialize_agent(groq_api_key, ctor_ok), o)

\* the .env file (or the secrets) is edited between two runs
edit_env(key) ==
    /\ key # groq_api_key
    /\ groq_api_key' = key
    /\ UNCHANGED <<session_state, app_calls, test_run>>
    /\ UNCHANGED agent_vars

\* the questions of test_agent.py
test_questions == <<TwoPlusTwo, AppleQuestion, PercentCalculate>>

TestFailed(key, calls) ==
    [pc |-> "exited", key |-> key, asked |-> test_run.asked, calls |-> calls, result |-> "False"]

\* test_agent() up to the first question: the key is read and tested, then
\* the module is imported and the agent constructed
test_start_with(key, step) ==
    IF ~Truthy(key) THEN TestFailed(key, <<>>)
    ELSE IF step = "import_error" THEN TestFailed(key, <<>>)
    ELSE IF step = "init_error" THEN TestFailed(key, <<Call("StockMarketAgent", key)>>)
    ELSE [pc |-> "asking", key |-> key, asked |-> 0,
          calls |-> <<Call("StockMarketAgent", key)>>, result |-> "none"]

test_start ==
    /\ test_run.pc = "ready"
    /\ \E step \in {"ok", "import_error", "init_error"} :
          test_run' = test_start_with(groq_api_key, step)
    /\ UNCHANGED <<groq_api_key, session_state, app_calls>>
    /\ UNCHANGED agent_vars

\* one turn of the loop over test_questions: agent.chat(question) returns,
\* or raises and the test fails
test_question ==
    /\ test_run.pc = "asking"
    /\ \E raised \in BOOLEAN :
          test_run' =
              [test_run EXCEPT
                 !.calls = Append(@, Call("chat", test_questions[test_run.asked + 1])),
                 !.asked = @ + 1,
                 !.pc = IF raised \/ test_run.asked + 1 = Len(test_questions)
                        THEN "exited" ELSE "asking",
                 !.result = IF raised THEN "False"
                            ELSE IF test_run.asked + 1 = Len(test_questions) THEN "True"
                            ELSE "none"]
    /\ UNCHANGED <<groq_api_key, session_state, app_calls>>
    /\ UNCHANGED agent_vars

\* the script has ended; it can be run again
test_exit ==
    /\ test_run.pc = "exited"
    /\ test_run' = TestReady
    /\ UNCHANGED <<groq_api_key, session_state, app_calls>>
    /\ UNCHANGED agent_vars

AppInit == agent_idle /\ \E key \in Keys : app_not_started(key)

AppNext ==
    \/ \E prompt \in Prompts \cup {None} : main(prompt)
    \/ \E key \in Keys : edit_env(key)
    \/ test_start
    \/ test_question
    \/ test_exit

AppSpec == AppInit /\ [][AppNext]_vars

---------------------------------------------------------------------------
(* Properties of the app and of the test driver *)

\* the credential is absent: no GROQ_API_KEY, or an empty one
NoKey(key) == key = None \/ key = <<>>

\* the key that initialize_agent found when the session was set up
SessionKey == app_calls[1].arg

AgentOps == {"StockMarketAgent", "chat"}

\* C14: when GROQ_API_KEY is absent at startup no agent is created and no
\* prompt is passed to StockMarketAgent.chat: the session answers every
\* prompt with the fixed configuration message, also after the key has been
\* added, and test_agent fails before it constructs the agent.
C14_NoKeyNoAgentNoChat ==
    /\ ("agent" \in session_state.keys /\ NoKey(SessionKey)) =>
          /\ session_state.agent = NoAgent
          /\ \A k \in DOMAIN app_calls : app_calls[k].op \notin AgentOps
          /\ \A k \in DOMAIN session_state.messages :
                session_state.messages[k].role = "assistant" =>
                    session_state.messages[k].content = ConfigError
    /\ (test_run.pc # "ready" /\ NoKey(test_run.key)) =>
          /\ test_run.pc = "exited"
          /\ test_run.result = "False"
          /\ test_run.calls = <<>>
          /\ test_run.asked = 0

\* the session was set up without a key and the test driver failed without
\* one; the key was added afterwards, and the prompt submitted then is still
\* answered with the configuration message
C14_Witness ==
    /\ "agent" \in session_state.keys
    /\ session_state.agent = NoAgent
    /\ NoKey(SessionKey)
    /\ groq_api_key = <<"g", "s", "k", "_", "1">>
    /\ Len(session_state.messages) = 2
    /\ session_state.messages[1] = Turn("user", AppleQuestion)
    /\ session_state.messages[2] = Turn("assistant", ConfigError)
    /\ Len(app_calls) = 1
    /\ test_run.pc = "exited"
    /\ NoKey(test_run.key)
    /\ test_run.result = "False"

\* the roles of the list are user, assistant, user, assistant, ...
Alternates(messages) ==
    /\ Len(messages) % 2 = 0
    /\ \A k \in DOMAIN messages :
          messages[k].role = IF k % 2 = 1 THEN "user" ELSE "assistant"

HistoryAlternates == Alternates(session_state.messages)

\* new is old, or old with one user turn and then one assistant turn appended
OneExchangeAppended(old, new) ==
    \/ new = old
    \/ /\ Len(new) = Len(old) + 2
       /\ SubSeq(new, 1, Len(old)) = old
       /\ new[Len(old) + 1].role = "user"
       /\ new[Len(old) + 2].role = "assistant"

\* a step of the session keeps the list, or appends one exchange to it
HistoryGrowsByExchanges ==
    OneExchangeAppended(session_state.messages, session_state'.messages)

=============================================================================
